---------------------------- MODULE Spec2Model ----------------------------
(***************************************************************************)
(* SnapStash ingestion pipeline: run lifecycle and single-flight guards    *)
(* (services/ingest_loop.py, api/ingest.py, services/ingestion_service.py),*)
(* message / media-asset storage with its de-duplication and merge rules   *)
(* (services/storage.py, services/data_processor.py) and the media linker  *)
(* (parsers/_data_linker.py).                                              *)
(*                                                                         *)
(* Three specifications share the module:                                  *)
(*   Spec       the run lifecycle on the asyncio event loop                *)
(*   SpecStore  the storage layer driven by process_parser_results         *)
(*   SpecLink   DataLinker.link_media_to_messages as a pure function       *)
(***************************************************************************)
EXTENDS Integers, Sequences, FiniteSets, TLC

VARIABLES
    \* ---- run lifecycle (Spec) ----
    status,                \* ingest_runs.status, indexed by IngestRun.id
    current_run_id,        \* IngestLoopService.current_run_id (0 = None)
    is_running,            \* IngestLoopService.is_running
    consecutive_failures,  \* IngestLoopService.consecutive_failures
    tasks,                 \* coroutines living on the event loop
    force_sleepers,        \* force_run callers suspended in asyncio.sleep(0.1)
    force_ret,             \* value last returned by force_run (-1 = none yet)
    lastStart,             \* observation: outcome of the last start operation
    exited,                \* observation: runs whose run_ingestion has stopped
    \* ---- storage (SpecStore, SpecMerge) ----
    remote,                \* rows of the device's conversation_message table
    db,                    \* the SQLAlchemy session and the tables behind it
    clock,                 \* datetime.utcnow() in milliseconds
    countsAfter,           \* observation: row counts after each ingestion run
    call,                  \* argument of the last direct create_message call
    scanned,               \* observation: file hashes the media scans of completed runs found
    orphan,                \* observation: calls of the orphan pass and links the last one made
    \* ---- media linking (SpecLink) ----
    link,                  \* arguments and result of link_media_to_messages
    \* ---- selective transfer (SpecNeeded, SpecTransfer) ----
    disc,                  \* arguments and result of determine_needed_media_files
    xfer,                  \* one run's transport steps and their outcomes
    \* ---- payload decoding (SpecDecode) ----
    pb,                    \* argument and result of parse_message
    \* ---- one run of run_ingestion (SpecRun) ----
    run,                   \* the coroutine, its session and its IngestRun row
    \* ---- API key middleware (SpecAuth) ----
    auth,                  \* one request and the answer of dispatch
    \* ---- continuous loop delays (SpecBackoff) ----
    bk,                    \* the loop's failure counter and the delays it slept
    \* ---- correlation keys (SpecKey) ----
    corr,                  \* a file name and the keys derived from it
    \* ---- transport operations (SpecTar) ----
    tar                    \* one transport operation and its result

lifeVars == <<status, current_run_id, is_running, consecutive_failures,
              tasks, force_sleepers, force_ret, lastStart, exited>>

storeVars == <<remote, db, clock, countsAfter, call, scanned, orphan>>

auxVars == <<disc, xfer, pb>>

pureVars == <<corr, tar>>

extVars == <<run, auth, bk, pureVars>>

dataVars == <<storeVars, link, auxVars, extVars>>

vars == <<lifeVars, dataVars>>

-----------------------------------------------------------------------------
(***************************************************************************)
(* Bounds                                                                  *)
(***************************************************************************)
MaxRuns == 2      \* IngestRun rows created in one behaviour
MaxTasks == 3     \* coroutines alive at the same time

-----------------------------------------------------------------------------
(***************************************************************************)
(* Run lifecycle                                                           *)
(***************************************************************************)
TaskIds == 1..MaxTasks

NoTask == [kind |-> "none", pc |-> "none", run |-> 0]

\* pcs at which a coroutine is suspended inside run_ingestion
RunPcs == {"db", "opt", "legacy"}

\* The part of the state the handlers read and write, as one record so that
\* a handler that runs several calls without an await stays one action.
Cur == [status |-> status, cur |-> current_run_id,
        cf |-> consecutive_failures, tasks |-> tasks,
        last |-> lastStart, exited |-> exited]

Commit(S) ==
    /\ status' = S.status
    /\ current_run_id' = S.cur
    /\ consecutive_failures' = S.cf
    /\ tasks' = S.tasks
    /\ lastStart' = S.last
    /\ exited' = S.exited

FreeSlots(S) == {t \in TaskIds : S.tasks[t].kind = "none"}
FreeSlot(S) == CHOOSE t \in FreeSlots(S) : \A u \in FreeSlots(S) : t <= u

Spawn(S, k, p, r) ==
    [S EXCEPT !.tasks[FreeSlot(S)] = [kind |-> k, pc |-> p, run |-> r]]

EndTask(S, t) == [S EXCEPT !.tasks[t] = NoTask]

\* A run is in progress: some coroutine is about to execute, or is executing,
\* run_ingestion for it.
InProgress(S) == \E t \in TaskIds : S.tasks[t].run # 0

\* The event loop is blocked by a coroutine that never awaits.
Spinning == \E t \in TaskIds : tasks[t].pc = "spin"

\* StorageService.create_ingest_run: a new row, status as given.
create_ingest_run(S, st) == [S EXCEPT !.status = Append(S.status, st)]

\* StorageService.update_ingest_run(run_id, status=st): unconditional write.
update_ingest_run(S, r, st) ==
    IF r \in 1..Len(S.status) THEN [S EXCEPT !.status[r] = st] ELSE S

\* StorageService.get_latest_ingest_runs(limit=1): newest row by started_at.
LatestStatus(S) == IF Len(S.status) = 0 THEN "none" ELSE S.status[Len(S.status)]

Log(S, op, created, res) ==
    [S EXCEPT !.last = [op |-> op, busy |-> InProgress(S),
                        created |-> created, result |-> res]]

\* run_ingestion, first statements: the run is marked running, then the
\* coroutine suspends in ssh_service.extract_databases.
run_ingestion_begin_skip(S, t, r) ==
    [S EXCEPT !.tasks[t].pc = "db", !.tasks[t].run = r]

run_ingestion_begin(S, t, r) ==
    [update_ingest_run(S, r, "running") EXCEPT
        !.tasks[t].pc = "db", !.tasks[t].run = r]

\* run_ingestion, last statements on the success path and the except branch.
run_ingestion_end(S, r, ok) ==
    LET S1 == update_ingest_run(S, r, IF ok THEN "completed" ELSE "failed")
    IN [S1 EXCEPT !.exited = @ \cup {r}]

\* The id the row gets at its flush.
flushed_id(r) == r

\* ingest_run.id as _run_single_ingest reads it: create_ingest_run has added
\* the object to a session made with autoflush=False and has not flushed
\* it, so its primary key is still None.
unflushed_id(r) == 0

\* _run_single_ingest up to its first await.  The guard on current_run_id,
\* the creation of the row and the assignment of current_run_id run without
\* an await in between; session.commit() then gives the row its id, which
\* run_ingestion receives.
run_single_ingest_enter(S, t) ==
    IF S.cur # 0
    THEN Log(S, "single", FALSE, "None")
    ELSE LET S1 == Log(S, "single", TRUE, "None")
             S2 == create_ingest_run(S1, "pending")
             r  == Len(S2.status)
             S3 == [S2 EXCEPT !.cur = unflushed_id(r)]
         IN run_ingestion_begin(S3, t, r)

\* One pass of the body of `while self.is_running` in
\* _continuous_ingest_loop, from the loop head to the next await.
\*   - a run is started: the coroutine suspends in extract_databases;
\*   - the run is skipped (current_run_id set): consecutive_failures is
\*     reset; with a positive delay the coroutine sleeps, with delay 0 it
\*     returns to the loop head without ever awaiting.
loop_iteration(S, t, delayPos) ==
    IF S.cur = 0
    THEN run_single_ingest_enter(S, t)
    ELSE LET S1 == run_single_ingest_enter(S, t)
             S2 == [S1 EXCEPT !.cf = 0]
         IN [S2 EXCEPT !.tasks[t].pc = IF delayPos THEN "top" ELSE "spin"]

\* A loop whose coroutine ends with the failure of its run.
after_run_failure_ends_loop(S, t, ok, delayPos) ==
    LET k == S.tasks[t].kind IN
    IF k = "api" THEN EndTask(S, t)
    ELSE IF k = "forced" \/ ~ok THEN EndTask([S EXCEPT !.cur = 0], t)
    ELSE LET S1 == [S EXCEPT !.cur = 0, !.tasks[t].run = 0,
                             !.tasks[t].pc = "top", !.cf = 0]
         IN IF delayPos THEN S1 ELSE loop_iteration(S1, t, delayPos)

\* What follows the end of run_ingestion in the caller of the coroutine.
\*   loop   : finally current_run_id = None; on success the counter is reset
\*            and the loop sleeps (delay > 0) or iterates at once (delay 0);
\*            on failure the counter is incremented and the loop sleeps.
\*   forced : finally current_run_id = None; the job ends.
\*   api    : run_ingest_process closes its session; the task ends.
after_run(S, t, ok, delayPos) ==
    LET k == S.tasks[t].kind IN
    IF k = "api" THEN EndTask(S, t)
    ELSE IF k = "forced" THEN EndTask([S EXCEPT !.cur = 0], t)
    ELSE LET S1 == [S EXCEPT !.cur = 0, !.tasks[t].run = 0,
                             !.tasks[t].pc = "top"]
         IN IF ~ok THEN [S1 EXCEPT !.cf = @ + 1]
            ELSE IF delayPos THEN [S1 EXCEPT !.cf = 0]
            ELSE loop_iteration([S1 EXCEPT !.cf = 0], t, delayPos)

\* run_ingestion from the linking step to its return or raise.
finish_run(S, t, ok, delayPos) ==
    after_run(run_ingestion_end(S, S.tasks[t].run, ok), t, ok, delayPos)

\* A shutdown that leaves the coroutines of the jobs running.
cancel_task_spared(S, t) == S

\* asyncio.CancelledError delivered to a suspended coroutine.  It is not an
\* Exception, so neither `except Exception` branch runs; only the finally
\* blocks of _run_single_ingest do.
cancel_task(S, t) ==
    LET r == S.tasks[t].run
        S1 == IF r # 0 THEN [S EXCEPT !.cur = 0, !.exited = @ \cup {r}] ELSE S
    IN EndTask(S1, t)

RECURSIVE cancel_all(_, _)
cancel_all(S, ts) ==
    IF ts = {} THEN S
    ELSE LET t == CHOOSE x \in ts : TRUE
         IN cancel_all(cancel_task(S, t), ts \ {t})

\* Room for the run a step may create.
RoomFor(n) == Len(status) + n <= MaxRuns

-----------------------------------------------------------------------------
\* The storage layer, untouched while the lifecycle is explored.
EmptyDb == [msgs |-> <<>>, assets |-> <<>>, newMsgs |-> <<>>, newAssets |-> <<>>]

DiscIdle == disc = [done |-> FALSE]

XferIdle == xfer = [pc |-> "idle"]

PbIdle == pb = [done |-> FALSE]

AuxIdle == DiscIdle /\ XferIdle /\ PbIdle

RunIdle == run = [pc |-> "idle"]

AuthIdle == auth = [done |-> FALSE]

BackoffIdle == bk = [pc |-> "idle"]

KeyIdle == corr = [done |-> FALSE]

TarIdle == tar = [pc |-> "idle"]

PureIdle == KeyIdle /\ TarIdle

ExtIdle == RunIdle /\ AuthIdle /\ BackoffIdle /\ PureIdle

LinkIdle ==
    link = [messages |-> <<>>, media_files |-> <<>>, claims |-> <<>>,
            unified |-> <<>>, raised |-> FALSE, done |-> FALSE]

OrphanIdle == orphan = [calls |-> 0, links |-> 0]

StoreIdle ==
    /\ remote = <<>>
    /\ db = EmptyDb
    /\ clock = 0
    /\ countsAfter = <<>>
    /\ call = [present |-> {}]
    /\ scanned = {}
    /\ OrphanIdle

Init ==
    /\ status = <<>>
    /\ current_run_id = 0
    /\ is_running = FALSE
    /\ consecutive_failures = 0
    /\ tasks = [t \in TaskIds |-> NoTask]
    /\ force_sleepers = 0
    /\ force_ret = -1
    /\ lastStart = [op |-> "none", busy |-> FALSE, created |-> FALSE,
                    result |-> "None"]
    /\ exited = {}
    /\ StoreIdle
    /\ LinkIdle
    /\ AuxIdle
    /\ ExtIdle

\* IngestLoopService.start (continuous mode).
Start ==
    /\ ~Spinning
    /\ ~is_running
    /\ FreeSlots(Cur) # {}
    /\ is_running' = TRUE
    /\ Commit(Spawn(Cur, "loop", "top", 0))
    /\ UNCHANGED <<dataVars, force_sleepers, force_ret>>

\* IngestLoopService.stop: scheduler.shutdown cancels the futures of the
\* jobs the scheduler runs (the continuous loop and forced runs) and drops
\* the jobs that have not started.
Stop ==
    /\ ~Spinning
    /\ is_running
    /\ is_running' = FALSE
    /\ Commit(cancel_all(Cur, {t \in TaskIds :
                                  tasks[t].kind \in {"loop", "forced"}}))
    /\ UNCHANGED <<dataVars, force_sleepers, force_ret>>

\* The continuous loop resumes at its loop head (first start, or the end of
\* a sleep).
LoopIterate(t) ==
    /\ ~Spinning
    /\ tasks[t].kind = "loop" /\ tasks[t].pc = "top"
    /\ \E delayPos \in BOOLEAN :
         /\ current_run_id = 0 => RoomFor(1)
         /\ IF is_running
            THEN Commit(loop_iteration(Cur, t, delayPos))
            ELSE Commit(EndTask(Cur, t))
    /\ UNCHANGED <<dataVars, is_running, force_sleepers, force_ret>>

\* IngestLoopService.force_run up to its asyncio.sleep(0.1); reached through
\* POST /api/scheduler/force-run, which requires is_running.
ForceRun ==
    /\ ~Spinning
    /\ is_running
    /\ IF current_run_id # 0
       THEN /\ Commit(Log(Cur, "force", FALSE, "RuntimeError"))
            /\ UNCHANGED force_sleepers
       ELSE /\ FreeSlots(Cur) # {}
            /\ force_sleepers < MaxTasks
            /\ Commit(Spawn(Log(Cur, "force", FALSE, "run_id"),
                            "forced", "single", 0))
            /\ force_sleepers' = force_sleepers + 1
    /\ UNCHANGED <<dataVars, is_running, force_ret>>

\* force_run after its sleep: return self.current_run_id.
ForceReturn ==
    /\ ~Spinning
    /\ force_sleepers > 0
    /\ force_sleepers' = force_sleepers - 1
    /\ force_ret' = current_run_id
    /\ UNCHANGED <<dataVars, status, current_run_id, is_running, consecutive_failures,
                   tasks, lastStart, exited>>

\* The scheduler starts a forced job: _run_single_ingest up to its first await.
ForcedJobStart(t) ==
    /\ ~Spinning
    /\ tasks[t].kind = "forced" /\ tasks[t].pc = "single"
    /\ current_run_id = 0 => RoomFor(1)
    /\ LET S1 == run_single_ingest_enter(Cur, t)
       IN Commit(IF current_run_id # 0 THEN EndTask(S1, t) ELSE S1)
    /\ UNCHANGED <<dataVars, is_running, force_sleepers, force_ret>>

\* POST /api/ingest/run (trigger_ingest): no await inside the handler.
TriggerIngest ==
    /\ ~Spinning
    /\ IF LatestStatus(Cur) \in {"pending", "in_progress", "running"}
       THEN Commit(Log(Cur, "api", FALSE, "409"))
       ELSE /\ RoomFor(1)
            /\ FreeSlots(Cur) # {}
            /\ LET S1 == create_ingest_run(Log(Cur, "api", TRUE, "accepted"),
                                           "pending")
               IN Commit(Spawn(S1, "api", "bg", Len(S1.status)))
    /\ UNCHANGED <<dataVars, is_running, force_sleepers, force_ret>>

\* POST /api/ingest/parse-local (trigger_local_ingest): the same guard, then
\* the validation of the source directory, then the pending row and the
\* background task.
TriggerLocalIngest ==
    /\ ~Spinning
    /\ \E valid \in BOOLEAN :
         IF LatestStatus(Cur) \in {"pending", "in_progress", "running"}
         THEN Commit(Log(Cur, "local", FALSE, "409"))
         ELSE IF ~valid THEN Commit(Log(Cur, "local", FALSE, "400"))
         ELSE /\ RoomFor(1)
              /\ FreeSlots(Cur) # {}
              /\ LET S1 == create_ingest_run(
                              Log(Cur, "local", TRUE, "accepted"), "pending")
                 IN Commit(Spawn(S1, "local", "bg", Len(S1.status)))
    /\ UNCHANGED <<dataVars, is_running, force_sleepers, force_ret>>

\* The background task run_local_ingest_process: IngestionService has no
\* method run_local_ingestion, so the call raises AttributeError, which is
\* logged and raised again; the session is closed and the task ends.
LocalTaskStart(t) ==
    /\ ~Spinning
    /\ tasks[t].kind = "local" /\ tasks[t].pc = "bg"
    /\ Commit(EndTask(Cur, t))
    /\ UNCHANGED <<dataVars, is_running, force_sleepers, force_ret>>

\* The background task run_ingest_process starts run_ingestion.
ApiTaskStart(t) ==
    /\ ~Spinning
    /\ tasks[t].kind = "api" /\ tasks[t].pc = "bg"
    /\ Commit(run_ingestion_begin(Cur, t, tasks[t].run))
    /\ UNCHANGED <<dataVars, is_running, force_sleepers, force_ret>>

\* extract_databases returns.  ok: its success flag; fault: an exception in
\* one of the synchronous steps that follow; media: config extract_media.
DbDone(t) ==
    /\ ~Spinning
    /\ tasks[t].pc = "db"
    /\ \E ok \in BOOLEAN, fault \in BOOLEAN, media \in BOOLEAN,
          delayPos \in BOOLEAN :
         /\ (tasks[t].kind = "loop" /\ ok /\ ~fault /\ ~media /\ ~delayPos)
               => RoomFor(1)
         /\ IF ~ok \/ fault
            THEN Commit(finish_run(Cur, t, FALSE, delayPos))
            ELSE IF media
            THEN Commit([Cur EXCEPT !.tasks[t].pc = "opt"])
            ELSE Commit(finish_run(Cur, t, TRUE, delayPos))
    /\ UNCHANGED <<dataVars, is_running, force_sleepers, force_ret>>

\* extract_media_optimized returns.  On failure the legacy transfer is
\* awaited; on success the run goes on to linking and storage.
OptDone(t) ==
    /\ ~Spinning
    /\ tasks[t].pc = "opt"
    /\ \E ok \in BOOLEAN, fault \in BOOLEAN, delayPos \in BOOLEAN :
         /\ (tasks[t].kind = "loop" /\ ok /\ ~fault /\ ~delayPos) => RoomFor(1)
         /\ IF ~ok
            THEN Commit([Cur EXCEPT !.tasks[t].pc = "legacy"])
            ELSE Commit(finish_run(Cur, t, ~fault, delayPos))
    /\ UNCHANGED <<dataVars, is_running, force_sleepers, force_ret>>

\* extract_media (legacy) returns; its failure is only logged.
LegacyDone(t) ==
    /\ ~Spinning
    /\ tasks[t].pc = "legacy"
    /\ \E fault \in BOOLEAN, delayPos \in BOOLEAN :
         /\ (tasks[t].kind = "loop" /\ ~fault /\ ~delayPos) => RoomFor(1)
         /\ Commit(finish_run(Cur, t, ~fault, delayPos))
    /\ UNCHANGED <<dataVars, is_running, force_sleepers, force_ret>>

Next ==
    \/ Start
    \/ Stop
    \/ ForceRun
    \/ ForceReturn
    \/ TriggerIngest
    \/ TriggerLocalIngest
    \/ \E t \in TaskIds : LocalTaskStart(t)
    \/ \E t \in TaskIds : LoopIterate(t)
    \/ \E t \in TaskIds : ForcedJobStart(t)
    \/ \E t \in TaskIds : ApiTaskStart(t)
    \/ \E t \in TaskIds : DbDone(t)
    \/ \E t \in TaskIds : OptDone(t)
    \/ \E t \in TaskIds : LegacyDone(t)

Spec == Init /\ [][Next]_vars

-----------------------------------------------------------------------------
(***************************************************************************)
(* Claims on the run lifecycle (specification Spec)                        *)
(***************************************************************************)
Running == {r \in 1..Len(status) : status[r] = "running"}

\* C1: under every interleaving of loop runs, forced runs and API-triggered
\* runs, at most one IngestRun row has status 'running'.
C1_AtMostOneRunning == Cardinality(Running) <= 1

\* C2: whenever run_ingestion has stopped executing for a run (return,
\* exception or cancellation), the persisted status of that run is
\* 'completed' or 'failed'.
C2_ExitedRunIsTerminal ==
    \A r \in exited : status[r] \in {"completed", "failed"}

\* Results a start operation gives when it did start a run.
StartedResults == {"None", "run_id", "accepted"}

\* C3: a start operation invoked while a run is in progress creates no new
\* IngestRun and its result differs from the result of a start that ran.
C3_BusyStartRefused ==
    (lastStart.op # "none" /\ lastStart.busy)
        => (~lastStart.created /\ lastStart.result \notin StartedResults)

StatusMoves == {<<"pending", "running">>, <<"running", "completed">>,
                <<"running", "failed">>}

LoopRunEnds(st) ==
    \E t \in TaskIds :
        /\ tasks[t].kind = "loop" /\ tasks[t].run # 0
        /\ status[tasks[t].run] = "running"
        /\ status'[tasks[t].run] = st

\* C28: in the continuous loop consecutive_failures grows by exactly one when
\* the run of an iteration failed, is reset to zero when the run of an
\* iteration succeeded, and changes in no other step.
C28_FailureCounter ==
    [][/\ LoopRunEnds("failed")
            => consecutive_failures' = consecutive_failures + 1
       /\ LoopRunEnds("completed") => consecutive_failures' = 0
       /\ consecutive_failures' # consecutive_failures
            => (LoopRunEnds("failed") \/ LoopRunEnds("completed"))]_vars

\* C28 witness: two runs of the loop have failed one after the other.
C28_Witness ==
    /\ status = <<"failed", "failed">>
    /\ consecutive_failures = 2
    /\ \E t \in TaskIds : tasks[t].kind = "loop"

\* The lifecycle with the loop's sleeps ending: asyncio.sleep returns after
\* its delay, which is at most 300 seconds.
FairSpec == Spec /\ WF_vars(\E t \in TaskIds : LoopIterate(t))

LoopTasks == {t \in TaskIds : tasks[t].kind = "loop"}

\* The last run of the loop failed and the rows of the model leave room for
\* another run.
LoopRunFailed ==
    /\ is_running
    /\ consecutive_failures > 0
    /\ Len(status) < MaxRuns

\* The loop is executing a run, or it was stopped, or the rows of the model
\* are used up.
NextRunAttempted ==
    \/ \E t \in LoopTasks : tasks[t].run # 0
    \/ ~is_running
    \/ Len(status) = MaxRuns

Ended == {r \in 1..Len(status) : \A t \in TaskIds : tasks[t].run # r}

\* C35: every IngestRun created with status 'pending' reaches 'completed'
\* or 'failed': once the task of a run has ended its status is not
\* 'pending' or 'running'.
C35_EndedRunIsTerminal ==
    \A r \in Ended : status[r] \notin {"pending", "running"}

\* C36: a POST /api/ingest/run made while no ingestion task is executing is
\* accepted and not answered 409.
C36_IdleTriggerAccepted ==
    (lastStart.op = "api" /\ ~lastStart.busy) => lastStart.result # "409"

\* C39: after any sequence of start, stop and restart calls, a stop during
\* a run or a sleep followed by a start included, at most one instance of
\* the continuous loop is active.
C39_OneLoopInstance == Cardinality(LoopTasks) <= 1

\* C39 witness: the loop was stopped during its run and started again.
C39_Witness ==
    /\ is_running
    /\ Cardinality(LoopTasks) = 1
    /\ \E r \in exited : status[r] = "running"

\* C30: stop() while a run is in progress leaves the coroutine of that run
\* as it is, so that the run goes on to 'completed' or 'failed'; and while
\* the loop is stopped no run is created except through the API.
C30_StopSparesRun ==
    [][/\ (is_running /\ ~is_running')
            => \A t \in TaskIds : tasks[t].run # 0 => tasks'[t] = tasks[t]
       /\ (~is_running /\ ~is_running' /\ Len(status') > Len(status))
            => lastStart'.op \in {"api", "local"}]_vars

-----------------------------------------------------------------------------
(***************************************************************************)
(* Storage layer: StorageService on a session made with autoflush=False.   *)
(* A query sees the rows already flushed to the tables; objects added to   *)
(* the session since the last flush are not seen by it.                    *)
(***************************************************************************)
MaxMsgs == 2      \* rows of the remote message table
MaxIngests == 2   \* ingestion runs in one behaviour

\* None, for a string column and for an integer column.  Booleans are kept
\* as the integers 0 and 1 (False == 0 and True == 1 in Python).
NoneS == "<None>"
NoneI == 0 - 1

StrFields == {"text", "cache_id", "sender_id", "file_hash"}

None(f) == IF f \in StrFields THEN NoneS ELSE NoneI

\* v == '' in Python: only a string can be the empty string.
IsEmptyStr(f, v) == f \in StrFields /\ v = ""

\* bool(v): None, '' and 0 are falsy.
Truthy(f, v) == v # None(f) /\ ~IsEmptyStr(f, v) /\ (f \in StrFields \/ v # 0)

MsgFields == {"conversation_id", "creation_timestamp", "sender_id", "text",
              "content_type", "cache_id", "read_timestamp",
              "parsing_successful", "media_asset_id"}

\* updatable_fields of _update_message_fields (the three remaining string
\* columns, server_message_id, client_message_id and raw_message_content,
\* follow the same rule as text and are not carried in the model).
UpdatableFields == {"text", "content_type", "cache_id", "read_timestamp",
                    "parsing_successful", "media_asset_id"}

SeqMin(S) == CHOOSE x \in S : \A y \in S : x <= y
SeqMax(S) == CHOOSE x \in S : \A y \in S : x >= y

\* Session.flush: pending objects are inserted and get their ids.
flush(D) ==
    [msgs |-> D.msgs \o [i \in 1..Len(D.newMsgs) |->
                            [D.newMsgs[i] EXCEPT !.id = Len(D.msgs) + i]],
     assets |-> D.assets \o [i \in 1..Len(D.newAssets) |->
                            [D.newAssets[i] EXCEPT !.id = Len(D.assets) + i]],
     newMsgs |-> <<>>,
     newAssets |-> <<>>]

\* Message(**message_data): a column that is not given is None.
NewMessage(data) ==
    [f \in MsgFields \cup {"id"} |->
        IF f = "id" THEN NoneI
        ELSE IF f \in data.present THEN data.v[f] ELSE None(f)]

\* One pass of the loop body of _update_message_fields for field f.
MergeField_overwrite(f, cur, data) ==
    IF f \in data.present /\ data.v[f] # cur THEN data.v[f] ELSE cur

MergeField(f, cur, data) ==
    IF f \notin data.present THEN cur
    ELSE LET new == data.v[f] IN
         IF /\ cur # None(f) /\ ~IsEmptyStr(f, cur)
            /\ (new = None(f) \/ IsEmptyStr(f, new))
         THEN cur
         ELSE IF new # cur /\ new # None(f)
         THEN IF IsEmptyStr(f, new) /\ cur # None(f) THEN cur ELSE new
         ELSE cur

\* StorageService._update_message_fields: the merged row.
update_message_fields(m, data) ==
    [f \in DOMAIN m |->
        IF f \in UpdatableFields THEN MergeField(f, m[f], data) ELSE m[f]]

\* Rows the duplicate query of create_message returns.
MessageHits(D, data) ==
    IF {"conversation_id", "creation_timestamp"} \subseteq data.present
    THEN {i \in 1..Len(D.msgs) :
            /\ D.msgs[i].conversation_id = data.v.conversation_id
            /\ D.msgs[i].creation_timestamp = data.v.creation_timestamp}
    ELSE {}

\* StorageService.create_message.
create_message(D, data) ==
    IF MessageHits(D, data) # {}
    THEN LET i == SeqMin(MessageHits(D, data))
             m == update_message_fields(D.msgs[i], data)
         IN IF m # D.msgs[i] THEN flush([D EXCEPT !.msgs[i] = m]) ELSE D
    ELSE [D EXCEPT !.newMsgs = Append(@, NewMessage(data))]

AssetHits(D, media) ==
    IF Truthy("file_hash", media.file_hash)
    THEN {i \in 1..Len(D.assets) : D.assets[i].file_hash = media.file_hash}
    ELSE {}

\* StorageService.create_media_asset: the session after the call, and the id
\* and cache_id of the asset it returns (id None for a pending object).
create_media_asset(D, media) ==
    IF AssetHits(D, media) # {}
    THEN LET a == D.assets[SeqMin(AssetHits(D, media))]
         IN [D |-> D, id |-> a.id, cache_id |-> a.cache_id]
    ELSE [D |-> [D EXCEPT !.newAssets = Append(@, [media EXCEPT !.id = NoneI])],
          id |-> NoneI, cache_id |-> media.cache_id]

\* DataProcessorService._convert_message_for_db.  A creation timestamp that
\* is None or 0 is replaced by the current time; a read timestamp of 0
\* becomes None.
convert_message_for_db(um, now) ==
    [present |-> MsgFields \ {"media_asset_id"},
     v |-> [conversation_id |-> um.conversation_id,
            creation_timestamp |->
                IF um.creation_timestamp_ms \in {NoneI, 0}
                THEN now ELSE um.creation_timestamp_ms,
            sender_id |-> um.sender_id,
            text |-> um.text,
            content_type |-> um.content_type,
            cache_id |-> um.cache_id,
            read_timestamp |->
                IF um.read_timestamp_ms \in {NoneI, 0}
                THEN NoneI ELSE um.read_timestamp_ms,
            parsing_successful |-> um.parsing_successful,
            media_asset_id |-> NoneI]]

\* process_parser_results, body of `for msg_data in messages`.
\* P: the session, processed_media_cache_ids and the two counters.
process_message(P, um, media, now) ==
    LET data == convert_message_for_db(um, now) IN
    IF ~Truthy("sender_id", data.v.sender_id) THEN P
    ELSE IF ~Truthy("creation_timestamp", data.v.creation_timestamp) THEN P
    ELSE LET linked == um.file # 0
             r == IF linked THEN create_media_asset(P.D, media[um.file])
                  ELSE [D |-> P.D, id |-> NoneI, cache_id |-> NoneS]
             data2 == IF linked
                      THEN [present |-> data.present \cup {"media_asset_id"},
                            v |-> [data.v EXCEPT !.media_asset_id = r.id]]
                      ELSE data
         IN [D |-> create_message(r.D, data2),
             processed |-> IF linked /\ Truthy("cache_id", r.cache_id)
                           THEN P.processed \cup {r.cache_id}
                           ELSE P.processed,
             nMsgs |-> P.nMsgs + 1,
             nAssets |-> P.nAssets + (IF linked THEN 1 ELSE 0)]

RECURSIVE process_messages(_, _, _, _, _, _)
process_messages(P, batch, media, now, adv, i) ==
    IF i > Len(batch) THEN P
    ELSE process_messages(
            process_message(P, batch[i], media, now + (IF adv THEN i ELSE 0)),
            batch, media, now, adv, i + 1)

\* process_parser_results, body of `for media_data in media_assets`.
process_standalone(P, md) ==
    IF md.cache_id \in P.processed THEN P
    ELSE [P EXCEPT !.D = create_media_asset(P.D, md).D,
                   !.nAssets = @ + 1]

RECURSIVE process_standalones(_, _, _)
process_standalones(P, list, i) ==
    IF i > Len(list) THEN P
    ELSE process_standalones(process_standalone(P, list[i]), list, i + 1)

\* DataProcessorService.process_parser_results (messages, linked assets,
\* standalone assets, commit).
process_parser_results(D, batch, media, media_assets, now, adv) ==
    LET P0 == [D |-> D, processed |-> {}, nMsgs |-> 0, nAssets |-> 0]
        P1 == process_messages(P0, batch, media, now, adv, 1)
        P2 == process_standalones(P1, media_assets, 1)
    IN [P2 EXCEPT !.D = flush(P2.D)]

\* The pass with a loop that stops after its first link.
link_orphaned_first_only(D) ==
    LET linkedTokens == {D.msgs[i].cache_id : i \in
                            {k \in 1..Len(D.msgs) :
                                /\ D.msgs[k].cache_id # NoneS
                                /\ D.msgs[k].media_asset_id # NoneI}}
        orphMedia == {j \in 1..Len(D.assets) :
                        /\ D.assets[j].cache_id \notin {NoneS, ""}
                        /\ D.assets[j].cache_id \notin linkedTokens}
        lookup(c) == {j \in orphMedia : D.assets[j].cache_id = c}
        hit == {i \in 1..Len(D.msgs) :
                    /\ D.msgs[i].cache_id \notin {NoneS, ""}
                    /\ D.msgs[i].media_asset_id = NoneI
                    /\ lookup(D.msgs[i].cache_id) # {}}
    IN IF hit = {} THEN D
       ELSE [D EXCEPT !.msgs[SeqMin(hit)].media_asset_id =
                SeqMax(lookup(D.msgs[SeqMin(hit)].cache_id))]

\* IngestionService._link_orphaned_messages_and_media.
link_orphaned_messages_and_media(D) ==
    LET linkedTokens == {D.msgs[i].cache_id : i \in
                            {k \in 1..Len(D.msgs) :
                                /\ D.msgs[k].cache_id # NoneS
                                /\ D.msgs[k].media_asset_id # NoneI}}
        orphMedia == {j \in 1..Len(D.assets) :
                        /\ D.assets[j].cache_id \notin {NoneS, ""}
                        /\ D.assets[j].cache_id \notin linkedTokens}
        lookup(c) == {j \in orphMedia : D.assets[j].cache_id = c}
    IN [D EXCEPT !.msgs = [i \in 1..Len(D.msgs) |->
            IF /\ D.msgs[i].cache_id \notin {NoneS, ""}
               /\ D.msgs[i].media_asset_id = NoneI
               /\ lookup(D.msgs[i].cache_id) # {}
            THEN [D.msgs[i] EXCEPT
                    !.media_asset_id = SeqMax(lookup(D.msgs[i].cache_id))]
            ELSE D.msgs[i]]]

\* The media files of the device as the media scan reports them, before
\* linking: cache_id None, sender_id 'unknown'.
ScannedFiles ==
    << [id |-> NoneI, file_hash |-> "h1", cache_key |-> "t1",
        cache_id |-> NoneS, sender_id |-> "unknown"],
       [id |-> NoneI, file_hash |-> "h2", cache_key |-> "t2",
        cache_id |-> NoneS, sender_id |-> "unknown"] >>

\* link_media_to_messages writes the sender and the token of a message into
\* the media dict it links; the dict is shared by every message linking the
\* same file, so it ends with the values of the last such message.
LinkedMedia(rows) ==
    [j \in 1..Len(ScannedFiles) |->
        LET users == {i \in 1..Len(rows) : rows[i].file = j} IN
        IF users = {} THEN ScannedFiles[j]
        ELSE [ScannedFiles[j] EXCEPT
                !.cache_id = rows[SeqMax(users)].cache_id,
                !.sender_id = rows[SeqMax(users)].sender_id]]

\* list.sort(key=creation_timestamp_ms): stable insertion by timestamp.
RECURSIVE InsertByTs(_, _)
InsertByTs(sorted, x) ==
    IF sorted = <<>> THEN <<x>>
    ELSE IF sorted[Len(sorted)].creation_timestamp_ms <= x.creation_timestamp_ms
    THEN Append(sorted, x)
    ELSE Append(InsertByTs(SubSeq(sorted, 1, Len(sorted) - 1), x),
                sorted[Len(sorted)])

RECURSIVE SortByTs(_)
SortByTs(rows) ==
    IF rows = <<>> THEN <<>>
    ELSE InsertByTs(SortByTs(SubSeq(rows, 1, Len(rows) - 1)), rows[Len(rows)])

\* Comparing None with an int (or with None) raises TypeError in the sort.
SortRaises(rows) ==
    Len(rows) >= 2 /\ \E i \in 1..Len(rows) : rows[i].creation_timestamp_ms = NoneI

\* The storage part of run_ingestion: link, sort, process_parser_results,
\* orphan linking.  withMedia: the media files reached the extraction
\* directory in this run (they do not when the selective transfer finds
\* them stored already).
ingest(D, rows, withMedia, now, adv) ==
    LET seen == [i \in 1..Len(rows) |->
                    IF withMedia THEN rows[i] ELSE [rows[i] EXCEPT !.file = 0]]
        media == LinkedMedia(seen)
        batch == SortByTs(seen)
        linked == SelectSeq(batch, LAMBDA um : um.file # 0)
        media_assets == [i \in 1..Len(linked) |-> media[linked[i].file]]
    IN IF SortRaises(rows) THEN D
       ELSE link_orphaned_messages_and_media(
                process_parser_results(D, batch, media, media_assets,
                                       now, adv).D)

\* Rows of conversation_message as extract_messages returns them.
RemoteRows ==
    {[conversation_id |-> c, creation_timestamp_ms |-> ts, sender_id |-> "u1",
      text |-> tx, content_type |-> IF tf[1] = NoneS THEN 1 ELSE 0,
      cache_id |-> tf[1], read_timestamp_ms |-> 0,
      parsing_successful |-> 1, file |-> tf[2]] :
        c \in 1..2, ts \in {NoneI, 0, 5}, tx \in {NoneS, "hello"},
        tf \in {<<NoneS, 0>>, <<"t1", 0>>, <<"t1", 1>>, <<"t2", 2>>}}

\* ORDER BY client_conversation_id, creation_timestamp (NULL first).
SqlOrdered(rows) ==
    \A i \in 1..(Len(rows) - 1) :
        \/ rows[i].conversation_id < rows[i + 1].conversation_id
        \/ /\ rows[i].conversation_id = rows[i + 1].conversation_id
           /\ rows[i].creation_timestamp_ms <= rows[i + 1].creation_timestamp_ms

RemoteStates ==
    UNION {{r \in [1..n -> RemoteRows] : SqlOrdered(r)} : n \in 0..MaxMsgs}

LifeIdle ==
    /\ status = <<>>
    /\ current_run_id = 0
    /\ is_running = FALSE
    /\ consecutive_failures = 0
    /\ tasks = [t \in TaskIds |-> NoTask]
    /\ force_sleepers = 0
    /\ force_ret = 0 - 1
    /\ lastStart = [op |-> "none", busy |-> FALSE, created |-> FALSE,
                    result |-> "None"]
    /\ exited = {}

InitStore ==
    /\ LifeIdle /\ ExtIdle
    /\ remote \in RemoteStates
    /\ db = EmptyDb
    /\ clock = 100
    /\ countsAfter = <<>>
    /\ call = [present |-> {}]
    /\ scanned = {}
    /\ OrphanIdle
    /\ LinkIdle
    /\ AuxIdle

\* One ingestion run against the remote state.  The run fails when the sort
\* of the unified messages raises; otherwise it completes.
IngestOnce ==
    /\ Len(countsAfter) < MaxIngests
    /\ \E withMedia \in BOOLEAN, adv \in BOOLEAN :
         /\ db' = ingest(db, remote, withMedia, clock, adv)
         /\ scanned' = IF withMedia /\ ~SortRaises(remote)
                       THEN scanned \cup {ScannedFiles[j].file_hash :
                                            j \in 1..Len(ScannedFiles)}
                       ELSE scanned
    /\ countsAfter' = Append(countsAfter, <<Len(db'.msgs), Len(db'.assets)>>)
    /\ clock' = clock + Len(remote) + 1
    /\ UNCHANGED <<lifeVars, extVars, remote, call, orphan, link, auxVars>>

NextStore == IngestOnce

SpecStore == InitStore /\ [][NextStore]_vars

-----------------------------------------------------------------------------
(***************************************************************************)
(* Claims on storage (specification SpecStore)                             *)
(***************************************************************************)

\* C5: a second ingestion run against the same remote state leaves the
\* number of Message rows and of MediaAsset rows as the first run left them.
C5_CountsStable ==
    \A i \in 2..Len(countsAfter) : countsAfter[i] = countsAfter[i - 1]

\* C6: no two persisted Message rows share (conversation_id,
\* creation_timestamp).
C6_NoDuplicateMessage ==
    \A i, j \in 1..Len(db.msgs) :
        (/\ db.msgs[i].conversation_id = db.msgs[j].conversation_id
         /\ db.msgs[i].creation_timestamp = db.msgs[j].creation_timestamp)
            => i = j

\* C11: every media file found by the media scan of a completed run is
\* persisted as a MediaAsset, whether a message links it or not.
C11_ScannedFilePersisted ==
    \A h \in scanned : \E i \in 1..Len(db.assets) : db.assets[i].file_hash = h

\* C8: at most one persisted MediaAsset for each non-empty file_hash.
C8_OneAssetPerHash ==
    \A i, j \in 1..Len(db.assets) :
        (/\ db.assets[i].file_hash = db.assets[j].file_hash
         /\ db.assets[i].file_hash \notin {NoneS, ""})
            => i = j

-----------------------------------------------------------------------------
(***************************************************************************)
(* create_message against one stored message (specification SpecMerge)     *)
(***************************************************************************)
MaxGiven == 2     \* updatable fields given in one message_data

\* Messages in the table before the call.
StoredMessages ==
    {[id |-> 1, conversation_id |-> 1, creation_timestamp |-> 5,
      sender_id |-> "u1", text |-> tx, content_type |-> ct, cache_id |-> ci,
      read_timestamp |-> rt, parsing_successful |-> ps,
      media_asset_id |-> ma] :
        tx \in {NoneS, "", "hello"}, ct \in {0, 1}, ci \in {NoneS, "t1"},
        rt \in {NoneI, 7}, ps \in {0, 1}, ma \in {NoneI, 1}}

\* Marks a key that message_data does not hold.
Absent(f) == IF f \in StrFields THEN "<absent>" ELSE 0 - 2

GivenValues ==
    [conversation_id : {1},
     creation_timestamp : {5, 6},
     sender_id : {Absent("sender_id"), "u2"},
     text : {Absent("text"), NoneS, "", "hello", "bye"},
     content_type : {Absent("content_type"), NoneI, 0, 2},
     cache_id : {Absent("cache_id"), NoneS, "", "t2"},
     read_timestamp : {Absent("read_timestamp"), NoneI, 0, 9},
     parsing_successful : {Absent("parsing_successful"), NoneI, 0, 1},
     media_asset_id : {Absent("media_asset_id"), NoneI, 2}]

Given(v) == {f \in MsgFields : v[f] # Absent(f)}

\* The message_data dicts handed to create_message.
MessageData ==
    {[present |-> Given(v), v |-> v, done |-> FALSE] :
        v \in {w \in GivenValues :
                Cardinality(Given(w) \cap UpdatableFields) <= MaxGiven}}

InitMerge ==
    /\ LifeIdle /\ ExtIdle
    /\ remote = <<>>
    /\ clock = 0
    /\ countsAfter = <<>>
    /\ \E m \in StoredMessages : db = [EmptyDb EXCEPT !.msgs = <<m>>]
    /\ call \in MessageData
    /\ scanned = {}
    /\ OrphanIdle
    /\ LinkIdle
    /\ AuxIdle

\* storage.create_message(message_data), then the caller's commit.
CreateMessage ==
    /\ call.present # {}
    /\ ~call.done
    /\ db' = flush(create_message(db, call))
    /\ call' = [call EXCEPT !.done = TRUE]
    /\ UNCHANGED <<lifeVars, extVars, remote, clock, countsAfter, scanned, orphan, link, auxVars>>

NextMerge == CreateMessage

SpecMerge == InitMerge /\ [][NextMerge]_vars

\* The call is about stored message m: same conversation and timestamp.
Matches(m) ==
    /\ {"conversation_id", "creation_timestamp"} \subseteq call.present
    /\ m.conversation_id = call.v.conversation_id
    /\ m.creation_timestamp = call.v.creation_timestamp

\* The value arriving for field f is null, empty or absent.
ArrivesBlank(f) ==
    \/ f \notin call.present
    \/ call.v[f] = None(f)
    \/ IsEmptyStr(f, call.v[f])

\* C7: create_message on data matching a stored message keeps every
\* updatable field whose stored value is non-null and non-empty when the
\* arriving value is null, empty or absent, and never changes
\* conversation_id, creation_timestamp or sender_id.
C7_MergePreserves ==
    [][\A i \in 1..Len(db.msgs) :
        (call.present # {} /\ ~call.done /\ Matches(db.msgs[i])) =>
            /\ Len(db'.msgs) >= i
            /\ \A f \in UpdatableFields :
                (/\ db.msgs[i][f] # None(f)
                 /\ ~IsEmptyStr(f, db.msgs[i][f])
                 /\ ArrivesBlank(f))
                    => db'.msgs[i][f] = db.msgs[i][f]
            /\ db'.msgs[i].conversation_id = db.msgs[i].conversation_id
            /\ db'.msgs[i].creation_timestamp = db.msgs[i].creation_timestamp
            /\ db'.msgs[i].sender_id = db.msgs[i].sender_id]_vars

\* Stored text 'hello' met an arriving text of None, with another sender
\* and another field that did change, and the call has been applied.
C7_Witness ==
    /\ call.present # {}
    /\ call.done
    /\ Len(db.msgs) = 1
    /\ Matches(db.msgs[1])
    /\ "text" \in call.present /\ call.v.text = NoneS
    /\ db.msgs[1].text = "hello"
    /\ "sender_id" \in call.present /\ call.v.sender_id # db.msgs[1].sender_id
    /\ "cache_id" \in call.present /\ db.msgs[1].cache_id = "t2"

-----------------------------------------------------------------------------
(***************************************************************************)
(* DataLinker.link_media_to_messages (specification SpecLink).             *)
(* Tokens, cache keys and filenames are sequences of characters, so that   *)
(* `in`, startswith and lower() are computed.  media_files is a list of    *)
(* dicts; a message's media_asset is a reference to one of them, kept as   *)
(* its position in the list (0 for None).                                  *)
(***************************************************************************)
MaxFiles == 2     \* media files found by the scan
MaxLinked == 2    \* messages handed to the linker

NoneT == <<NoneS>>

\* bool(s) for a string or None.
TruthyT(s) == s # NoneT /\ s # <<>>

\* a in b
IsSubstr(a, b) ==
    \E i \in 0..(Len(b) - Len(a)) : SubSeq(b, i + 1, i + Len(a)) = a

\* b.startswith(a)
StartsWith(b, a) == Len(a) <= Len(b) /\ SubSeq(b, 1, Len(a)) = a

LowerChar(c) == IF c = "A" THEN "a" ELSE IF c = "B" THEN "b" ELSE c

lower(s) == [i \in 1..Len(s) |-> LowerChar(s[i])]

\* MediaScanner: cache_key = name.split('_')[0] if '_' in name else name
cache_key_of(name) ==
    IF \E i \in 1..Len(name) : name[i] = "_"
    THEN SubSeq(name, 1, SeqMin({i \in 1..Len(name) : name[i] = "_"}) - 1)
    ELSE name

\* The dict the media scan builds for a file.
scan_media(name) ==
    [original_filename |-> name, cache_key |-> cache_key_of(name),
     cache_id |-> NoneT, sender_id |-> "unknown"]

\* DataLinker.map_cache_id_to_cache_key: cache key of the first claim whose
\* external key contains the token.
map_cache_id_to_cache_key(cache_id, claims) ==
    LET hits == {i \in 1..Len(claims) :
                    /\ TruthyT(claims[i][2])
                    /\ IsSubstr(cache_id, claims[i][2])}
    IN IF ~TruthyT(cache_id) \/ claims = <<>> \/ hits = {} THEN NoneT
       ELSE claims[SeqMin(hits)][1]

\* media_by_cache_key[key]: the last file of the list with that cache key.
ByCacheKey(media, key) ==
    LET hits == {j \in 1..Len(media) : media[j].cache_key = key}
    IN IF hits = {} THEN 0 ELSE SeqMax(hits)

\* `for media in media_files: if ...: break`
FirstOf(hits) == IF hits = {} THEN 0 ELSE SeqMin(hits)

Method1(media, cache_id) == ByCacheKey(media, cache_id)

Method2(media, claims, cache_id) ==
    LET cache_key == map_cache_id_to_cache_key(cache_id, claims) IN
    IF TruthyT(cache_key) /\ ByCacheKey(media, cache_key) # 0
    THEN ByCacheKey(media, cache_key)
    ELSE IF TruthyT(cache_key)
    THEN FirstOf({j \in 1..Len(media) :
            /\ TruthyT(media[j].original_filename)
            /\ \/ IsSubstr(cache_key, media[j].original_filename)
               \/ StartsWith(media[j].original_filename, cache_key)})
    ELSE 0

Method3(media, cache_id) ==
    FirstOf({j \in 1..Len(media) :
                \/ IsSubstr(cache_id, media[j].original_filename)
                \/ IsSubstr(cache_id, media[j].cache_key)})

Method4(media, cache_id) ==
    FirstOf({j \in 1..Len(media) :
                /\ TruthyT(media[j].cache_key)
                /\ \/ IsSubstr(lower(cache_id), lower(media[j].cache_key))
                   \/ IsSubstr(lower(media[j].cache_key), lower(cache_id))})

\* The methods in another order: the filename search first.
find_media_reordered(media, claims, cache_id) ==
    IF Method3(media, cache_id) # 0 THEN Method3(media, cache_id)
    ELSE IF Method1(media, cache_id) # 0 THEN Method1(media, cache_id)
    ELSE IF Method2(media, claims, cache_id) # 0
    THEN Method2(media, claims, cache_id)
    ELSE Method4(media, cache_id)

\* The chain of `if not media_asset:` blocks.
find_media(media, claims, cache_id) ==
    IF Method1(media, cache_id) # 0 THEN Method1(media, cache_id)
    ELSE IF Method2(media, claims, cache_id) # 0
    THEN Method2(media, claims, cache_id)
    ELSE IF Method3(media, cache_id) # 0 THEN Method3(media, cache_id)
    ELSE Method4(media, cache_id)

\* Body of `for message in messages`.  L: media_files and unified_messages.
link_message(L, claims, message) ==
    LET j == IF TruthyT(message.cache_id)
             THEN find_media(L.media, claims, message.cache_id) ELSE 0
    IN [media |-> IF j = 0 THEN L.media
                  ELSE [L.media EXCEPT ![j].sender_id = message.sender_id,
                                       ![j].cache_id = message.cache_id],
        unified |-> Append(L.unified,
                           [sender_id |-> message.sender_id,
                            cache_id |-> message.cache_id,
                            creation_timestamp_ms |->
                                message.creation_timestamp_ms,
                            media_asset |-> j])]

RECURSIVE link_messages(_, _, _, _)
link_messages(L, claims, messages, i) ==
    IF i > Len(messages) THEN L
    ELSE link_messages(link_message(L, claims, messages[i]),
                       claims, messages, i + 1)

\* DataLinker.link_media_to_messages: the media dicts after the call and
\* the unified messages, sorted by timestamp.  The sort compares the
\* timestamps themselves; when it raises, the call returns nothing.
link_media_to_messages(messages, media_files, claims) ==
    LET L == link_messages([media |-> media_files, unified |-> <<>>],
                           claims, messages, 1)
    IN IF SortRaises(L.unified)
       THEN [media |-> L.media, unified |-> <<>>, raised |-> TRUE]
       ELSE [media |-> L.media, unified |-> SortByTs(L.unified),
             raised |-> FALSE]

\* Names of the files in the media directories.
FileNames ==
    {<<"a", "b", "_", "x">>, <<"x", "_", "a", "b">>, <<"b">>,
     <<"A", "b", "_", "a">>, <<"_", "a">>}

\* Media tokens (cache_id) of messages; NoneT for a message without media.
Tokens == {NoneT, <<"a", "b">>, <<"a">>, <<"A", "B">>}

\* cache_file_claims tables: rows (cache_key, external_key).
ClaimTables ==
    {<<>>,
     << <<<<"b">>, <<"a", "b">>>> >>,
     << <<<<"x">>, <<"A", "B">>>> >>,
     << <<NoneT, <<"a">>>>, <<<<"b">>, <<"a", "b">>>> >>}

MediaLists ==
    UNION {{f \in [1..n -> FileNames] : \A i, j \in 1..n : f[i] = f[j] => i = j}
            : n \in 1..MaxFiles}

\* The timestamps of a list of messages: running with the order of the
\* list, against it, or with NULL in the first row.
TsOrders == {"asc", "desc", "null"}

creation_ts(order, i, n) ==
    CASE order = "asc" -> i
      [] order = "desc" -> n + 1 - i
      [] order = "null" -> IF i = 1 THEN NoneI ELSE i

\* Messages in the order extract_messages returns them.
MessageLists ==
    UNION {{[i \in 1..n |->
                [sender_id |-> p[i][1], cache_id |-> p[i][2],
                 creation_timestamp_ms |-> creation_ts(order, i, n)]] :
                p \in [1..n -> {"u1", "u2"} \X Tokens], order \in TsOrders}
            : n \in 1..MaxLinked}

InitLink ==
    /\ LifeIdle /\ ExtIdle
    /\ StoreIdle
    /\ AuxIdle
    /\ \E ms \in MessageLists, fs \in MediaLists, cl \in ClaimTables :
         link = [messages |-> ms,
                 media_files |-> [j \in 1..Len(fs) |-> scan_media(fs[j])],
                 claims |-> cl,
                 unified |-> <<>>,
                 raised |-> FALSE,
                 done |-> FALSE]

\* parser.link_media_to_messages()
LinkMedia ==
    /\ ~link.done
    /\ link.messages # <<>>
    /\ LET r == link_media_to_messages(link.messages, link.media_files,
                                       link.claims)
       IN link' = [link EXCEPT !.media_files = r.media,
                               !.unified = r.unified,
                               !.raised = r.raised,
                               !.done = TRUE]
    /\ UNCHANGED <<lifeVars, extVars, storeVars, auxVars>>

NextLink == LinkMedia

SpecLink == InitLink /\ [][NextLink]_vars

-----------------------------------------------------------------------------
(***************************************************************************)
(* Claims on linking (specification SpecLink)                              *)
(***************************************************************************)

\* Strategy k matches file f for token c (claims table cl).
StrategyMatch(k, c, f, cl) ==
    LET mapped == map_cache_id_to_cache_key(c, cl) IN
    CASE k = 1 -> f.cache_key = c
      [] k = 2 -> TruthyT(mapped) /\ f.cache_key = mapped
      [] k = 3 -> TruthyT(mapped) /\ IsSubstr(mapped, f.original_filename)
      [] k = 4 -> IsSubstr(c, f.original_filename) \/ IsSubstr(c, f.cache_key)
      [] k = 5 -> /\ f.cache_key # <<>>   \* an empty key matches nothing
                  /\ \/ IsSubstr(lower(c), lower(f.cache_key))
                     \/ IsSubstr(lower(f.cache_key), lower(c))

\* Strategies matching some file of the scan.
Matching(c) ==
    {k \in 1..5 : \E j \in 1..Len(link.media_files) :
        StrategyMatch(k, c, link.media_files[j], link.claims)}

\* C9: every message with a media token is linked to a file that matches
\* under the first strategy, in the order 1..5, matching any file at all;
\* it is linked to no file when no strategy matches one.
C9_FirstStrategyWins ==
    link.done =>
        \A i \in 1..Len(link.unified) :
            LET u == link.unified[i] IN
            IF ~TruthyT(u.cache_id) \/ Matching(u.cache_id) = {}
            THEN u.media_asset = 0
            ELSE /\ u.media_asset # 0
                 /\ StrategyMatch(SeqMin(Matching(u.cache_id)), u.cache_id,
                                  link.media_files[u.media_asset],
                                  link.claims)

\* A message was linked by strategy 1 although an earlier file of the list
\* matches it under strategy 4 only.
C9_Witness ==
    /\ link.done
    /\ \E i \in 1..Len(link.unified) :
        LET u == link.unified[i] IN
        /\ u.media_asset = 2
        /\ StrategyMatch(1, u.cache_id, link.media_files[2], link.claims)
        /\ StrategyMatch(4, u.cache_id, link.media_files[1], link.claims)
        /\ ~StrategyMatch(1, u.cache_id, link.media_files[1], link.claims)

\* C10: every linked message of the output has a media_asset whose
\* sender_id is the message's sender and whose cache_id is the message's
\* token.
C10_AssetBelongsToMessage ==
    link.done =>
        \A i \in 1..Len(link.unified) :
            LET u == link.unified[i] IN
            u.media_asset # 0 =>
                /\ link.media_files[u.media_asset].sender_id = u.sender_id
                /\ link.media_files[u.media_asset].cache_id = u.cache_id

-----------------------------------------------------------------------------
(***************************************************************************)
(* The orphan pass on its own (specification SpecOrphan): tables holding   *)
(* any messages and assets, then _link_orphaned_messages_and_media called  *)
(* repeatedly with no other write in between.                              *)
(***************************************************************************)
MaxOrphans == 2   \* rows of each table before the pass
MaxPasses == 2    \* calls of the pass in one behaviour

\* results["links_created"] of the pass on tables D.
links_created(D) ==
    LET linkedTokens == {D.msgs[i].cache_id : i \in
                            {k \in 1..Len(D.msgs) :
                                /\ D.msgs[k].cache_id # NoneS
                                /\ D.msgs[k].media_asset_id # NoneI}}
        media_lookup == {D.assets[j].cache_id : j \in
                            {k \in 1..Len(D.assets) :
                                /\ D.assets[k].cache_id \notin {NoneS, ""}
                                /\ D.assets[k].cache_id \notin linkedTokens}}
    IN Cardinality({i \in 1..Len(D.msgs) :
                        /\ D.msgs[i].cache_id \notin {NoneS, ""}
                        /\ D.msgs[i].media_asset_id = NoneI
                        /\ D.msgs[i].cache_id \in media_lookup})

\* A stored message with token tok, linked to asset ma (NoneI: to none).
StoredMessage(i, tok, ma) ==
    [id |-> i, conversation_id |-> 1, creation_timestamp |-> i,
     sender_id |-> "u1", text |-> NoneS, content_type |-> 0,
     cache_id |-> tok, read_timestamp |-> NoneI, parsing_successful |-> 1,
     media_asset_id |-> ma]

\* A stored asset with cache_id tok.
StoredAsset(j, tok) ==
    [id |-> j, file_hash |-> NoneS, cache_key |-> NoneS, cache_id |-> tok,
     sender_id |-> "u1"]

AssetTables ==
    UNION {{[j \in 1..n |-> StoredAsset(j, f[j])] :
                f \in [1..n -> {"", "t1", "t2"}]} : n \in 0..MaxOrphans}

\* Only a message with a token is ever given an asset.
MessageTables(nAssets) ==
    UNION {{[i \in 1..n |-> StoredMessage(i, f[i][1], f[i][2])] :
                f \in [1..n -> {p \in {NoneS, "t1", "t2"} \X ({NoneI} \cup 1..nAssets) :
                                    p[1] = NoneS => p[2] = NoneI}]}
            : n \in 0..MaxOrphans}

InitOrphan ==
    /\ LifeIdle /\ ExtIdle
    /\ remote = <<>>
    /\ clock = 0
    /\ countsAfter = <<>>
    /\ call = [present |-> {}]
    /\ scanned = {}
    /\ LinkIdle
    /\ AuxIdle
    /\ \E as \in AssetTables : \E ms \in MessageTables(Len(as)) :
            db = [EmptyDb EXCEPT !.msgs = ms, !.assets = as]
    /\ orphan = [calls |-> 0, links |-> 0, total |-> 0]

\* self._link_orphaned_messages_and_media()
LinkOrphans ==
    /\ orphan.calls < MaxPasses
    /\ db' = link_orphaned_messages_and_media(db)
    /\ orphan' = [calls |-> orphan.calls + 1,
                  links |-> links_created(db),
                  total |-> orphan.total + links_created(db)]
    /\ UNCHANGED <<lifeVars, extVars, remote, clock, countsAfter, call, scanned, link, auxVars>>

NextOrphan == LinkOrphans

SpecOrphan == InitOrphan /\ [][NextOrphan]_vars

\* Asset j of tables D has no linking message: no message refers to it.
Unreferenced(D, j) ==
    \A k \in 1..Len(D.msgs) : D.msgs[k].media_asset_id # D.assets[j].id

\* Message i of tables D has a token and no asset, and an unreferenced
\* asset carries its token.
Joinable(D, i) ==
    /\ D.msgs[i].cache_id \notin {NoneS, ""}
    /\ D.msgs[i].media_asset_id = NoneI
    /\ \E j \in 1..Len(D.assets) :
            D.assets[j].cache_id = D.msgs[i].cache_id /\ Unreferenced(D, j)

\* C12: the pass gives every message that had a non-empty token, no asset
\* and an unreferenced asset with that token a media_asset_id naming an
\* asset with that token, and leaves every other Message row as it was.
C12_OrphanPassJoins ==
    [][orphan'.calls = orphan.calls + 1 =>
        /\ Len(db'.msgs) = Len(db.msgs)
        /\ \A i \in 1..Len(db.msgs) :
            IF Joinable(db, i)
            THEN \E j \in 1..Len(db.assets) :
                    /\ db.assets[j].cache_id = db.msgs[i].cache_id
                    /\ db'.msgs[i] =
                         [db.msgs[i] EXCEPT !.media_asset_id = db.assets[j].id]
            ELSE db'.msgs[i] = db.msgs[i]]_vars

\* C40: after _link_orphaned_messages_and_media has returned, no message
\* with a non-empty token and no asset remains while some MediaAsset row
\* has that token as its cache_id, also when another message with the
\* token is linked to that asset already.
C40_NoOrphanLeft ==
    orphan.calls >= 1 =>
        \A i \in 1..Len(db.msgs) :
            (/\ db.msgs[i].cache_id \notin {NoneS, ""}
             /\ db.msgs[i].media_asset_id = NoneI)
            => \A j \in 1..Len(db.assets) :
                    db.assets[j].cache_id # db.msgs[i].cache_id

\* C13: a call of the pass that follows another call, with no write in
\* between, creates no link and leaves every row as it was.
C13_OrphanPassIdempotent ==
    [][(orphan.calls >= 1 /\ orphan'.calls = orphan.calls + 1) =>
        (orphan'.links = 0 /\ db' = db)]_vars

\* The pass ran twice and the first call created a link.
C13_Witness ==
    /\ orphan.calls = 2
    /\ "total" \in DOMAIN orphan
    /\ orphan.total > 0
    /\ orphan.links = 0

\* The unified message carries the fields of the input message.
SameFields(u, m) ==
    /\ u.sender_id = m.sender_id
    /\ u.cache_id = m.cache_id
    /\ u.creation_timestamp_ms = m.creation_timestamp_ms

\* C38: for every input, messages without a creation timestamp included,
\* link_media_to_messages does not raise and returns one unified message
\* per input message, with the message's fields, with at most one
\* media_asset, in ascending order of creation_timestamp_ms.
C38_OneUnifiedPerMessage ==
    link.done =>
        /\ ~link.raised
        /\ Len(link.unified) = Len(link.messages)
        /\ \E p \in [1..Len(link.messages) -> 1..Len(link.messages)] :
            /\ \A i, j \in 1..Len(link.messages) : p[i] = p[j] => i = j
            /\ \A i \in 1..Len(link.messages) :
                SameFields(link.unified[p[i]], link.messages[i])
        /\ \A i \in 1..Len(link.unified) :
            link.unified[i].media_asset \in 0..Len(link.media_files)
        /\ \A i, j \in 1..Len(link.unified) :
            i < j => link.unified[i].creation_timestamp_ms
                        <= link.unified[j].creation_timestamp_ms

-----------------------------------------------------------------------------
(***************************************************************************)
(* MediaDiscoveryService.determine_needed_media_files (specification       *)
(* SpecNeeded).  message_cache_ids is a Python set: the order in which it  *)
(* is iterated is not fixed, so it is drawn with the input.                *)
(***************************************************************************)
MaxMappings == 2  \* rows of the cache mapping table

\* MediaDiscoveryService._extract_cache_key
extract_cache_key(filename) ==
    IF \E i \in 1..Len(filename) : filename[i] = "_"
    THEN SubSeq(filename, 1,
                SeqMin({i \in 1..Len(filename) : filename[i] = "_"}) - 1)
    ELSE IF \E i \in 1..Len(filename) : filename[i] = "."
    THEN SubSeq(filename, 1,
                SeqMin({i \in 1..Len(filename) : filename[i] = "."}) - 1)
    ELSE filename

\* cache_id_to_key after the rows mappings[1..n]: for each row, the first
\* cache id of the iteration that its external key contains gets the row's
\* cache key, replacing what an earlier row gave it.  NoneT: no entry.
RECURSIVE cache_id_to_key(_, _, _)
cache_id_to_key(mappings, ids, n) ==
    IF n = 0 THEN [i \in 1..Len(ids) |-> NoneT]
    ELSE LET prev == cache_id_to_key(mappings, ids, n - 1)
             hits == {i \in 1..Len(ids) :
                        /\ TruthyT(mappings[n][2])
                        /\ IsSubstr(ids[i], mappings[n][2])}
         IN IF hits = {} THEN prev
            ELSE [prev EXCEPT ![SeqMin(hits)] = mappings[n][1]]

\* is_referenced of determine_needed_media_files for a file's cache key.
is_referenced(cache_key, mappings, ids) ==
    LET dict == cache_id_to_key(mappings, ids, Len(mappings)) IN
    \/ \E i \in 1..Len(ids) : dict[i] # NoneT /\ dict[i] = cache_key
    \/ \E i \in 1..Len(ids) :
        /\ TruthyT(ids[i]) /\ TruthyT(cache_key)
        /\ (IsSubstr(ids[i], cache_key) \/ IsSubstr(cache_key, ids[i]))

\* determine_needed_media_files: the filenames of the files it returns.
determine_needed_media_files(files, existing, mappings, ids) ==
    {f \in files :
        /\ f \notin existing
        /\ extract_cache_key(f) \notin existing
        /\ is_referenced(extract_cache_key(f), mappings, ids)}

\* Names find reports in native_content_manager.
RemoteNames ==
    {<<"a", "_", "x">>, <<"b", ".", "j">>, <<"c">>, <<"a", "b", "_", "x">>}

\* Rows (cache_key, external_key) of CACHE_FILE_CLAIM.
MappingRows ==
    {<<<<"b">>, <<"t", "u">>>>, <<<<"c">>, <<"t">>>>, <<NoneT, <<"u">>>>}

\* Iteration orders of the sets of message cache ids.
CacheIdOrders ==
    {<<<<"t">>>>, <<<<"u">>>>, <<<<"a">>>>, <<<<"t">>, <<"u">>>>,
     <<<<"u">>, <<"t">>>>, <<<<"a">>, <<"t">>>>, <<<<"t">>, <<"a">>>>}

InitNeeded ==
    /\ LifeIdle /\ ExtIdle
    /\ StoreIdle
    /\ LinkIdle
    /\ XferIdle
    /\ PbIdle
    /\ \E fs \in SUBSET RemoteNames,
          ex \in SUBSET {<<"c">>, <<"a", "_", "x">>},
          n \in 0..MaxMappings :
         \E ms \in [1..n -> MappingRows], ids \in CacheIdOrders :
            disc = [files |-> fs, existing |-> ex, mappings |-> ms,
                    ids |-> ids, needed |-> {}, done |-> FALSE]

\* discovery_service.determine_needed_media_files(...)
DetermineNeeded ==
    /\ "files" \in DOMAIN disc
    /\ ~disc.done
    /\ disc' = [disc EXCEPT
                  !.needed = determine_needed_media_files(
                                disc.files, disc.existing, disc.mappings,
                                disc.ids),
                  !.done = TRUE]
    /\ UNCHANGED <<lifeVars, extVars, storeVars, link, xfer, pb>>

NextNeeded == DetermineNeeded

SpecNeeded == InitNeeded /\ [][NextNeeded]_vars

\* The key is referenced by a message token: the token and the key contain
\* one another, or a mapping whose external key contains the token gives
\* the key.
ReferencedKey(key) ==
    \E i \in 1..Len(disc.ids) :
        \/ /\ key # <<>>
           /\ (IsSubstr(disc.ids[i], key) \/ IsSubstr(key, disc.ids[i]))
        \/ \E n \in 1..Len(disc.mappings) :
            /\ TruthyT(disc.mappings[n][2])
            /\ IsSubstr(disc.ids[i], disc.mappings[n][2])
            /\ disc.mappings[n][1] = key

\* The file is stored already, under its name or under its key.
StoredAlready(f) ==
    f \in disc.existing \/ extract_cache_key(f) \in disc.existing

\* C14: determine_needed_media_files returns exactly the discovered files
\* whose key is referenced by a message token, directly or through a cache
\* mapping, and which are not stored already.
C14_ExactlyNeeded ==
    ("files" \in DOMAIN disc /\ disc.done) =>
        disc.needed = {f \in disc.files :
                        ReferencedKey(extract_cache_key(f)) /\ ~StoredAlready(f)}

\* The orders in which the media scan can list the files of a set.
ScanOrders(S) ==
    {o \in [1..Cardinality(S) -> S] :
        \A i, j \in 1..Cardinality(S) : o[i] = o[j] => i = j}

\* With all the discovered files scanned, the linker links file f to a
\* message of the run by its method 1 or 2.
LinkedByFirstTwo(f) ==
    \E i \in 1..Len(disc.ids), o \in ScanOrders(disc.files) :
        LET media == [j \in 1..Len(o) |-> scan_media(o[j])]
            c == disc.ids[i]
            j == IF Method1(media, c) # 0 THEN Method1(media, c)
                 ELSE Method2(media, disc.mappings, c)
        IN j # 0 /\ o[j] = f

\* C37: for the same messages, cache mappings and file names, every
\* discovered file that is not stored yet and that link_media_to_messages
\* would link to a message by strategy 1 or 2 is in the result of
\* determine_needed_media_files.
C37_NeededCoversLinkable ==
    ("files" \in DOMAIN disc /\ disc.done) =>
        \A f \in disc.files :
            (~StoredAlready(f) /\ LinkedByFirstTwo(f)) => f \in disc.needed

-----------------------------------------------------------------------------
(***************************************************************************)
(* The transport steps of one run (specification SpecTransfer): database   *)
(* extraction, then extract_media_optimized (cache mapping database,       *)
(* discovery, selective transfer), then the legacy transfer.  The steps    *)
(* after the transfers (linking, storage) are taken as succeeding.         *)
(***************************************************************************)

\* What a remote command can do: succeed with output, exit non-zero, run
\* into the timeout, or exit 0 with no output.
Outcomes == {"ok", "nonzero", "timeout", "empty"}

Failures == Outcomes \ {"ok"}

Steps == {"db", "mapdb", "disc", "sel", "legacy"}

\* _execute_tar_stream and the size test that follows it: the success flag
\* of extract_databases, extract_cache_mappings_db,
\* transfer_specific_media_files and extract_media.
tar_stream_success(o) == o = "ok"

\* discover_remote_media_files: files are listed only when the command
\* succeeded with output; its 'success' is True in every case.
discovery_lists_files(o) == o = "ok"

\* run_ingestion: the final status write and the return.
run_completed(x) ==
    [x EXCEPT !.pc = "done", !.status = "completed"]

\* run_ingestion: the except branch, with error_message = str(e).
run_failed(x, step, o) ==
    [x EXCEPT !.pc = "done", !.status = "failed",
              !.error = [step |-> step, outcome |-> o]]

\* run_ingestion after extract_media_optimized has returned `success`.
after_optimized(x, success) ==
    IF success
    THEN run_completed([x EXCEPT !.optResult = "success"])
    ELSE [x EXCEPT !.optResult = "failure", !.pc = "legacy",
                   !.legacyInvoked = TRUE]

InitTransfer ==
    /\ LifeIdle /\ ExtIdle
    /\ StoreIdle
    /\ LinkIdle
    /\ DiscIdle
    /\ PbIdle
    /\ \E em \in BOOLEAN, cp \in BOOLEAN, ids \in BOOLEAN, nd \in BOOLEAN :
         xfer = [pc |-> "db", status |-> "running",
                 extract_media |-> em,     \* config extract_media
                 cache_db |-> cp,          \* cache_controller.db came with the databases
                 has_ids |-> ids,          \* some message carries a cache id
                 needed |-> nd,            \* a listed file is needed
                 out |-> [s \in Steps |-> "none"],
                 optResult |-> "none", legacyInvoked |-> FALSE,
                 error |-> [step |-> "none", outcome |-> "none"]]

\* Step 1: ssh_service.extract_databases returns.
ExtractDatabases ==
    /\ xfer.pc = "db"
    /\ \E o \in Outcomes :
         LET x == [xfer EXCEPT !.out["db"] = o] IN
         xfer' = IF ~tar_stream_success(o) THEN run_failed(x, "db", o)
                 ELSE IF ~x.extract_media THEN run_completed(x)
                 ELSE IF x.cache_db THEN [x EXCEPT !.pc = "disc"]
                 ELSE [x EXCEPT !.pc = "mapdb"]
    /\ UNCHANGED <<lifeVars, extVars, storeVars, link, disc, pb>>

\* extract_media_optimized, phase 1 fallback: extract_cache_mappings_db.
ExtractCacheMappings ==
    /\ xfer.pc = "mapdb"
    /\ \E o \in Outcomes :
         LET x == [xfer EXCEPT !.out["mapdb"] = o] IN
         xfer' = IF tar_stream_success(o) THEN [x EXCEPT !.pc = "disc"]
                 ELSE after_optimized(x, FALSE)
    /\ UNCHANGED <<lifeVars, extVars, storeVars, link, disc, pb>>

\* extract_media_optimized, phases 2 to 4: discover_remote_media_files
\* returns, then the early returns for no cache ids and nothing needed.
DiscoverRemote ==
    /\ xfer.pc = "disc"
    /\ \E o \in Outcomes :
         LET x == [xfer EXCEPT !.out["disc"] = o] IN
         xfer' = IF ~x.has_ids THEN after_optimized(x, TRUE)
                 ELSE IF ~(discovery_lists_files(o) /\ x.needed)
                 THEN after_optimized(x, TRUE)
                 ELSE [x EXCEPT !.pc = "sel"]
    /\ UNCHANGED <<lifeVars, extVars, storeVars, link, disc, pb>>

\* extract_media_optimized, phase 5: transfer_specific_media_files returns.
TransferSpecific ==
    /\ xfer.pc = "sel"
    /\ \E o \in Outcomes :
         xfer' = after_optimized([xfer EXCEPT !.out["sel"] = o],
                                 tar_stream_success(o))
    /\ UNCHANGED <<lifeVars, extVars, storeVars, link, disc, pb>>

\* ssh_service.extract_media returns; its failure is logged as a warning.
ExtractMediaLegacy ==
    /\ xfer.pc = "legacy"
    /\ \E o \in Outcomes :
         xfer' = run_completed([xfer EXCEPT !.out["legacy"] = o])
    /\ UNCHANGED <<lifeVars, extVars, storeVars, link, disc, pb>>

NextTransfer ==
    \/ ExtractDatabases
    \/ ExtractCacheMappings
    \/ DiscoverRemote
    \/ TransferSpecific
    \/ ExtractMediaLegacy

SpecTransfer == InitTransfer /\ [][NextTransfer]_vars

\* The run is over.
RunOver == xfer.pc = "done"

\* C15: the legacy transfer is invoked exactly when the optimized transfer
\* reported failure, and it is invoked whenever the mapping extraction,
\* the discovery or the selective transfer failed.
C15_LegacyIffOptimizedFailed ==
    RunOver =>
        /\ xfer.legacyInvoked <=> xfer.optResult = "failure"
        /\ (\E s \in {"mapdb", "disc", "sel"} : xfer.out[s] \in Failures)
              => xfer.legacyInvoked

\* C16: a run in which a remote command failed ends 'failed' with the
\* failure in its error message.
C16_TransportFailureFailsRun ==
    RunOver =>
        \A s \in Steps :
            xfer.out[s] \in Failures =>
                /\ xfer.status = "failed"
                /\ xfer.error.step # "none"

-----------------------------------------------------------------------------
(***************************************************************************)
(* ProtobufParser.parse_message (specification SpecDecode).  A payload is  *)
(* a sequence of bytes or None.  What Snapchat_pb2 makes of a payload is   *)
(* an input: ParseFromString raises or gives a structure, and for each of  *)
(* the paths the parser walks the structure either lacks the path          *)
(* (hasattr is False) or holds a string there.  Strings are sequences of   *)
(* characters; "NUL" is the null byte.                                     *)
(***************************************************************************)
MaxPayload == 2   \* bytes of a payload

NoneB == <<NoneI>>          \* the payload None
NaN == <<"<nan>">>          \* np.nan
NoPath == <<"<nopath>">>    \* hasattr(...) is False on the path

INFO == <<"I", "N", "F", "O">>
ERROR == <<"E", "R", "R", "O", "R">>
NoCacheId == <<"N", "o", " ", "c", "a", "c", "h", "e", "I", "d">>

\* The messages parse_schema and the extractors return in place of a value.
InfoMessage == INFO \o <<" ", "-">>
ErrorMessage == ERROR \o <<" ", "-">>

\* ProtobufParser.validate_protobuf_data, for None or bytes.
validate_protobuf_data(data) ==
    /\ data # NoneB
    /\ Len(data) >= 2
    /\ data[1] % 8 <= 5

\* s.replace('\x00', '')
remove_nulls(s) == SelectSeq(s, LAMBDA ch : ch # "NUL")

\* s.strip()
RECURSIVE strip(_)
strip(s) ==
    IF s = <<>> THEN s
    ELSE IF s[1] = " " THEN strip(Tail(s))
    ELSE IF s[Len(s)] = " " THEN strip(SubSeq(s, 1, Len(s) - 1))
    ELSE s

\* The first two cacheId paths under Content.startMedia.
start_media_cache_id(st) ==
    IF st.tok3 # NoPath THEN st.tok3
    ELSE IF st.tok2 # NoPath THEN st.tok2
    ELSE NoPath

\* ProtobufParser._extract_cache_id_from_start_media
extract_cache_id_from_start_media(st) ==
    IF start_media_cache_id(st) # NoPath
    THEN <<start_media_cache_id(st), NaN>>
    ELSE <<InfoMessage, NaN>>

\* ProtobufParser._extract_chat_message
extract_chat_message(st) ==
    IF st.msg = NoPath THEN <<InfoMessage, NaN>>
    ELSE IF st.msg # <<>> /\ strip(remove_nulls(st.msg)) # <<>>
    THEN <<strip(remove_nulls(st.msg)), NaN>>
    ELSE <<InfoMessage, NaN>>

\* The three cacheId paths of _extract_media_data and _extract_audio_cache_id.
any_cache_id(st) ==
    IF start_media_cache_id(st) # NoPath THEN start_media_cache_id(st)
    ELSE st.tokChat

\* ProtobufParser._extract_media_data
extract_media_data(st) ==
    LET cache_id == any_cache_id(st)
        media_text == IF st.caption \in {NoPath, <<>>} THEN st.caption
                      ELSE strip(remove_nulls(st.caption))
    IN IF cache_id = NoPath /\ media_text = NoPath
       THEN <<InfoMessage, NaN>>
       ELSE <<IF cache_id \in {NoPath, <<>>} THEN NoCacheId ELSE cache_id,
              IF media_text \in {NoPath, <<>>} THEN NaN ELSE media_text>>

\* ProtobufParser._extract_audio_cache_id
extract_audio_cache_id(st) ==
    IF any_cache_id(st) # NoPath THEN <<any_cache_id(st), NaN>>
    ELSE <<InfoMessage, NaN>>

\* The extractor of a content type, with its own try/except around the walk.
extract(content_type, dec) ==
    IF dec.fault THEN <<ErrorMessage, NaN>>
    ELSE CASE content_type = 0 -> extract_cache_id_from_start_media(dec.st)
           [] content_type = 1 -> extract_chat_message(dec.st)
           [] content_type = 2 -> extract_media_data(dec.st)
           [] content_type = 4 -> extract_audio_cache_id(dec.st)

\* parse_schema with no try/except around ParseFromString.
parse_schema_uncaught(data, content_type, env, dec) ==
    IF ~env.numpy THEN <<ErrorMessage, NoneT>>
    ELSE IF ~validate_protobuf_data(data) \/ ~env.pb2
    THEN <<InfoMessage, NaN>>
    ELSE IF dec.parse = "raises" THEN <<"raised">>
    ELSE IF content_type \in {0, 1, 2, 4} THEN extract(content_type, dec)
    ELSE <<ErrorMessage, NaN>>

\* ProtobufParser.parse_schema
parse_schema(data, content_type, env, dec) ==
    IF ~env.numpy THEN <<ErrorMessage, NoneT>>
    ELSE IF ~validate_protobuf_data(data) \/ ~env.pb2
    THEN <<InfoMessage, NaN>>
    ELSE IF dec.parse = "raises" THEN <<ErrorMessage, NaN>>
    ELSE IF content_type \in {0, 1, 2, 4} THEN extract(content_type, dec)
    ELSE <<ErrorMessage, NaN>>

Raised == [raised |-> TRUE, text |-> NoneT, token |-> NoneT, ok |-> FALSE]

Triple(text, token, ok) ==
    [raised |-> FALSE, text |-> text, token |-> token, ok |-> ok]

\* ProtobufParser.parse_message
parse_message(data, content_type, env, dec) ==
    IF ~validate_protobuf_data(data) \/ data = NoneB \/ Len(data) = 0
    THEN Triple(NoneT, NoneT, FALSE)
    ELSE LET r == parse_schema(data, content_type, env, dec) IN
         IF r = <<"raised">> THEN Raised
         ELSE IF IsSubstr(ERROR, r[1]) \/ IsSubstr(INFO, r[1])
         THEN Triple(NoneT, NoneT, FALSE)
         ELSE Triple(IF content_type = 1 THEN r[1]
                     ELSE IF content_type = 2 THEN r[2] ELSE NoneT,
                     IF content_type \in {0, 2, 4} THEN r[1] ELSE NoneT,
                     TRUE)

\* Payload bytes: 10 has wire type 2, 15 has wire type 7.
PayloadBytes == {10, 15}

Payloads ==
    {NoneB} \cup UNION {[1..n -> PayloadBytes] : n \in 0..MaxPayload}

ContentTypes == {0 - 1, 0, 1, 2, 3, 4}

\* Values of Content.chat.chatMessage.message.
ChatTexts ==
    { <<>>, <<" ">>, <<"NUL">>, <<"h", "i">>, <<"h", "i", "NUL", "NUL">>,
      <<" ", "h", "NUL", "i", " ">>, <<"m", "y", " ">> \o INFO }

\* Values of a cacheId field.
CacheIds == { <<>>, <<"t">> }

\* Values of mediatextFinal.
Captions == { <<>>, <<" ", "NUL">>, <<"c", " ">> }

Structures ==
    [tok3 : {NoPath} \cup CacheIds, tok2 : {NoPath, <<"u">>},
     tokChat : {NoPath, <<"v">>}, caption : {NoPath} \cup Captions,
     msg : {NoPath} \cup ChatTexts]

NoStructure ==
    [tok3 |-> NoPath, tok2 |-> NoPath, tokChat |-> NoPath,
     caption |-> NoPath, msg |-> NoPath]

\* What ParseFromString and the walk of the structure do with a payload.
Decodings ==
    {[parse |-> "raises", fault |-> FALSE, st |-> NoStructure]}
    \cup [parse : {"ok"}, fault : BOOLEAN, st : Structures]

Environments == [numpy : BOOLEAN, pb2 : BOOLEAN]

Available(env) == env.numpy /\ env.pb2

InitDecode ==
    /\ LifeIdle /\ ExtIdle /\ StoreIdle /\ LinkIdle /\ DiscIdle /\ XferIdle
    /\ \E data \in Payloads, kind \in ContentTypes,
          env \in Environments, dec \in Decodings :
         /\ (~validate_protobuf_data(data) \/ ~Available(env))
                => dec.parse = "raises"
         /\ pb = [done |-> FALSE, data |-> data, kind |-> kind, env |-> env,
                  dec |-> dec, result |-> Triple(NoneT, NoneT, FALSE)]

ParseMessage ==
    /\ ~pb.done
    /\ pb' = [pb EXCEPT !.done = TRUE,
                        !.result = parse_message(pb.data, pb.kind,
                                                 pb.env, pb.dec)]
    /\ UNCHANGED <<lifeVars, extVars, storeVars, link, disc, xfer>>

NextDecode == ParseMessage

SpecDecode == InitDecode /\ [][NextDecode]_vars

\* The payload decoded and the walk of the structure finished without fault.
WellFormed ==
    /\ validate_protobuf_data(pb.data)
    /\ Available(pb.env)
    /\ pb.dec.parse = "ok"
    /\ ~pb.dec.fault

Absent3(v) == v \in {NoneT, NaN}

\* C17: for every payload (None, empty, truncated, malformed included) and
\* every content type parse_message returns a (text, token, ok) triple and
\* never raises; an empty payload with content type 1 gives ok = False with
\* text and token both None.
C17_NeverRaises ==
    pb.done =>
        /\ ~pb.result.raised
        /\ (pb.data = <<>> /\ pb.kind = 1)
              => pb.result = Triple(NoneT, NoneT, FALSE)

\* A payload that passes validation and that ParseFromString rejects.
C17_Witness ==
    /\ pb.done
    /\ validate_protobuf_data(pb.data)
    /\ Available(pb.env)
    /\ pb.dec.parse = "raises"
    /\ pb.result = Triple(NoneT, NoneT, FALSE)

\* C18: ok is True exactly when the content type is one of 0, 1, 2, 4 and
\* the walk of the decoded structure finished without fault, whether or not
\* a value was found.
C18_OkIffRecognizedAndWalked ==
    pb.done =>
        (pb.result.ok <=> (pb.kind \in {0, 1, 2, 4} /\ WellFormed))

\* C19: for content type 1 and chat text T the result is text =
\* T with null bytes removed and whitespace stripped and ok = True whenever
\* that form is non-empty, whatever T contains; when it is empty the text is
\* None and ok is still True.
C19_ChatTextReturned ==
    (pb.done /\ pb.kind = 1 /\ WellFormed /\ pb.dec.st.msg # NoPath) =>
        LET T == strip(remove_nulls(pb.dec.st.msg)) IN
        /\ pb.result.ok
        /\ IF T # <<>> THEN pb.result.text = T
           ELSE Absent3(pb.result.text)

\* The token and the caption a content type 2 structure holds.
TokenPresent == any_cache_id(pb.dec.st) \notin {NoPath, <<>>}

CaptionPresent ==
    /\ pb.dec.st.caption # NoPath
    /\ strip(remove_nulls(pb.dec.st.caption)) # <<>>

\* C20: for content type 2 the token is returned exactly when a token is
\* present at one of the token paths and the text exactly when a non-empty
\* caption is present, in all four combinations.
C20_MediaTokenAndCaption ==
    (pb.done /\ pb.kind = 2 /\ WellFormed) =>
        /\ IF TokenPresent THEN pb.result.token = any_cache_id(pb.dec.st)
           ELSE Absent3(pb.result.token)
        /\ IF CaptionPresent
           THEN pb.result.text = strip(remove_nulls(pb.dec.st.caption))
           ELSE Absent3(pb.result.text)

-----------------------------------------------------------------------------
(***************************************************************************)
(* The delays of _continuous_ingest_loop (specification SpecBackoff).  One *)
(* iteration of the loop is one action: _run_single_ingest returns (a run  *)
(* that succeeded, or a skipped run) or raises, the counter is written and *)
(* the loop sleeps.                                                        *)
(***************************************************************************)
MaxFailures == 9      \* failures in a row
MaxIterations == 12   \* iterations of the loop in one behaviour

max_consecutive_failures == 5
RetryDelay == 60
BackoffBase == 30
BackoffCeiling == 300

Min2(a, b) == IF a <= b THEN a ELSE b

\* The delay slept in the except branch once the counter has been
\* incremented to n.
failure_delay(n) ==
    IF n >= max_consecutive_failures
    THEN Min2(BackoffCeiling, BackoffBase * 2 ^ (n - max_consecutive_failures))
    ELSE RetryDelay

\* config["delay_between_runs_seconds"]
RunDelays == {0, 5}

InitBackoff ==
    /\ LifeIdle /\ StoreIdle /\ LinkIdle /\ AuxIdle
    /\ RunIdle /\ AuthIdle /\ PureIdle
    /\ \E dly \in RunDelays :
         bk = [pc |-> "loop", cf |-> 0, delay |-> dly, slept |-> <<>>,
               last |-> 0, iterations |-> 0]

\* An iteration in which _run_single_ingest returns.
IterationReturns ==
    /\ bk.pc = "loop"
    /\ bk.iterations < MaxIterations
    /\ bk' = [bk EXCEPT !.cf = 0, !.slept = <<>>, !.last = bk.delay,
                        !.iterations = @ + 1]
    /\ UNCHANGED <<lifeVars, storeVars, link, auxVars, run, auth, pureVars>>

\* An iteration in which _run_single_ingest raises.
IterationRaises ==
    /\ bk.pc = "loop"
    /\ bk.iterations < MaxIterations
    /\ bk.cf < MaxFailures
    /\ bk' = [bk EXCEPT !.cf = @ + 1,
                        !.slept = Append(@, failure_delay(bk.cf + 1)),
                        !.last = failure_delay(bk.cf + 1),
                        !.iterations = @ + 1]
    /\ UNCHANGED <<lifeVars, storeVars, link, auxVars, run, auth, pureVars>>

NextBackoff == IterationReturns \/ IterationRaises

SpecBackoff == InitBackoff /\ [][NextBackoff]_vars

\* C29: the delay slept after the n-th failure in a row does not decrease
\* as n grows and is at most 300 seconds, for every n >= 1.
C29_DelayMonotoneAndCapped ==
    \A n \in 1..Len(bk.slept) :
        /\ bk.slept[n] <= BackoffCeiling
        /\ n > 1 => bk.slept[n - 1] <= bk.slept[n]

-----------------------------------------------------------------------------
(***************************************************************************)
(* APIKeyAuthMiddleware.dispatch (specification SpecAuth).  Host names,    *)
(* addresses and paths are sequences of parts, so that `in` and            *)
(* startswith are computed on them.                                        *)
(***************************************************************************)

\* request.client.host; NoneT when request.client is None.
ClientHosts ==
    { NoneT, <<"10.", "0.0.5">>, <<"172.", "18.0.3">>, <<"127.", "0.0.1">>,
      <<"localhost">> }

\* The Host header; <<>> when the header is missing.
HostHeaders ==
    { <<>>, <<"example", ".com">>, <<"localhost", ":", "8067">>,
      <<"backend", ":", "8000">>, <<"my", "backend", ":", "80">>,
      <<"127.", "0.0.1", ":", "8067">> }

Paths ==
    { <<"/">>, <<"/health">>, <<"/api/health">>, <<"/api/health", "/db">>,
      <<"/api/conversations">> }

\* The X-API-Key header; NoneT when the header is missing.
KeyHeaders == { NoneT, <<>>, <<"wrong">>, <<"secret">> }

\* self.api_key: not configured, or configured.
ApiKeys == { <<>>, <<"secret">> }

\* APIKeyAuthMiddleware._is_internal_request
is_internal_request(client_host, host_header) ==
    /\ client_host # NoneT
    /\ \/ StartsWith(client_host, <<"172.">>)
       \/ StartsWith(client_host, <<"127.">>)
       \/ client_host = <<"localhost">>
       \/ IsSubstr(<<"backend", ":">>, host_header)
       \/ StartsWith(host_header, <<"backend">>)
       \/ IsSubstr(<<"localhost">>, host_header)
       \/ IsSubstr(<<"127.", "0.0.1">>, host_header)

\* APIKeyAuthMiddleware._is_health_endpoint
is_health_endpoint(path) ==
    \/ path \in { <<"/">>, <<"/health">>, <<"/api/health">> }
    \/ StartsWith(path, <<"/api/health">>)

\* APIKeyAuthMiddleware.dispatch: "handler" when call_next is awaited,
\* otherwise the status code of the answer.
dispatch(api_key, req) ==
    IF api_key = <<>> THEN "handler"
    ELSE IF is_internal_request(req.client_host, req.host_header)
            \/ is_health_endpoint(req.path)
    THEN "handler"
    ELSE IF req.key \in {NoneT, <<>>} THEN "401"
    ELSE IF req.key # api_key THEN "403"
    ELSE "handler"

InitAuth ==
    /\ LifeIdle /\ StoreIdle /\ LinkIdle /\ AuxIdle
    /\ RunIdle /\ BackoffIdle /\ PureIdle
    /\ \E k \in ApiKeys, ch \in ClientHosts, hh \in HostHeaders,
          p \in Paths, kh \in KeyHeaders :
         auth = [done |-> FALSE, api_key |-> k,
                 req |-> [client_host |-> ch, host_header |-> hh,
                          path |-> p, key |-> kh],
                 answer |-> "none"]

Dispatch ==
    /\ ~auth.done
    /\ auth' = [auth EXCEPT !.done = TRUE,
                            !.answer = dispatch(auth.api_key, auth.req)]
    /\ UNCHANGED <<lifeVars, storeVars, link, auxVars, run, bk, pureVars>>

NextAuth == Dispatch

SpecAuth == InitAuth /\ [][NextAuth]_vars

\* The request comes from an address outside the Docker networks and the
\* loopback range.
ExternalClient ==
    /\ auth.req.client_host # NoneT
    /\ ~StartsWith(auth.req.client_host, <<"172.">>)
    /\ ~StartsWith(auth.req.client_host, <<"127.">>)
    /\ auth.req.client_host # <<"localhost">>

\* C25: with an API key configured, a request from an outside address to a
\* non-health endpoint reaches its handler only if its X-API-Key header
\* equals the configured key, is answered 401 without a key and 403 with a
\* wrong key, whatever its Host header is.
C25_KeyRequired ==
    (/\ auth.done /\ auth.api_key # <<>>
     /\ ExternalClient /\ ~is_health_endpoint(auth.req.path))
        => /\ auth.answer = "handler" => auth.req.key = auth.api_key
           /\ auth.req.key \in {NoneT, <<>>} => auth.answer = "401"
           /\ auth.req.key \notin {NoneT, <<>>, auth.api_key}
                => auth.answer = "403"

-----------------------------------------------------------------------------
(***************************************************************************)
(* One call of IngestionService.run_ingestion (specification SpecRun).     *)
(* The coroutine suspends in extract_databases, extract_media_optimized    *)
(* and extract_media; what lies between two of these awaits is one action. *)
(* The session is kept as the committed tables and the work of the open    *)
(* transaction; a row is [k, id, v].  The faults of a run are inputs: one  *)
(* record whose storage call raises, and one step that raises.             *)
(***************************************************************************)
MaxBatch == 2     \* messages of the remote table in the run

Row(k, id, v) == [k |-> k, id |-> id, v |-> v]

\* session.add / attribute writes: the row replaces the one with its key.
put(work, row) ==
    {r \in work : ~(r.k = row.k /\ r.id = row.id)} \cup {row}

\* Session.rollback
session_rollback(R) == [R EXCEPT !.work = R.tables]

\* A commit that leaves the tables as they were.
session_commit_flush_only(R) == R

\* Session.commit
session_commit(R) == [R EXCEPT !.tables = R.work]

mark(R, step) == [R EXCEPT !.trace = Append(@, step)]

add_error(R) == [R EXCEPT !.errors = @ + 1]

RecordFaults(k, i, R) == R.plan.rec = [phase |-> k, at |-> i]

\* The linked media file of message i reached the linker.
HasMedia(R, i) == R.batch[i].media /\ R.config.extract_media

\* upsert_user / upsert_conversation, in the try of the caller's loop body.
upsert_record(R, k, i, v) ==
    IF RecordFaults(k, i, R) THEN add_error(session_rollback(R))
    ELSE [R EXCEPT !.work = put(@, Row(k, i, v)),
                   !.stored = @ \cup {Row(k, i, v)}]

RECURSIVE upsert_all(_, _, _, _)
upsert_all(R, k, v, i) ==
    IF i > Len(R.batch) THEN R
    ELSE upsert_all(upsert_record(R, k, i, v), k, v, i + 1)

\* `try: self.db.commit() except: self.db.rollback(); errors.append(...)`
\* at the end of a phase; the phase is recorded with the rows its storage
\* calls returned and the rows it committed.
phase_commit(R, name) ==
    LET fault == R.plan.step = name
        R1 == IF fault THEN add_error(session_rollback(R))
              ELSE session_commit(R)
    IN [R1 EXCEPT !.phases = Append(@, [name |-> name, stored |-> R.stored,
                                        ok |-> ~fault,
                                        snap |-> IF fault THEN {} ELSE R.work]),
                  !.stored = {}]

\* StorageService.create_media_asset for the file of message i
\* (process_parser_results, the inner try and the standalone loop).
store_asset(R, i) ==
    IF RecordFaults("asset", i, R) THEN add_error(session_rollback(R))
    ELSE [R EXCEPT !.work = put(@, Row("asset", i, [tok |-> i])),
                   !.stored = @ \cup {Row("asset", i, [tok |-> i])},
                   !.nAssets = @ + 1,
                   !.processed = @ \cup {i}]

\* process_parser_results, body of `for msg_data in messages`.
store_message(R, i) ==
    IF RecordFaults("convert", i, R) THEN add_error(R)
    ELSE LET Ra == IF HasMedia(R, i) THEN store_asset(R, i) ELSE R
             row == Row("msg", i,
                        [tok |-> IF HasMedia(R, i) THEN i ELSE 0,
                         asset |-> IF i \in Ra.processed THEN i ELSE 0,
                         ok |-> R.batch[i].ok])
         IN IF RecordFaults("message", i, R)
            THEN add_error(session_rollback(Ra))
            ELSE [Ra EXCEPT !.work = put(@, row),
                            !.stored = @ \cup {row},
                            !.nMsgs = @ + 1]

RECURSIVE store_messages(_, _)
store_messages(R, i) ==
    IF i > Len(R.batch) THEN R
    ELSE store_messages(store_message(R, i), i + 1)

\* process_parser_results, `for media_data in media_assets`.
RECURSIVE store_standalones(_, _)
store_standalones(R, i) ==
    IF i > Len(R.batch) THEN R
    ELSE store_standalones(
            IF HasMedia(R, i) /\ i \notin R.processed
            THEN store_asset(R, i) ELSE R, i + 1)

\* DataProcessorService.process_parser_results: users, conversations, then
\* messages and assets, each with its commit.
process_results_phases(R) ==
    LET R1 == phase_commit(upsert_all(R, "user", "u", 1), "commit_users")
        R2 == phase_commit(upsert_all(R1, "conv", "bare", 1), "commit_convs")
        R3 == store_standalones(store_messages(R2, 1), 1)
    IN phase_commit(R3, "commit_data")

\* IngestionService._process_conversations: the conversations get their
\* metadata; nothing is committed here.
RECURSIVE process_conversations(_, _)
process_conversations(R, i) ==
    IF i > Len(R.batch) THEN R
    ELSE process_conversations(
            [R EXCEPT !.work = put(@, Row("conv", i, "meta"))], i + 1)

\* ConversationParser.populate_dm_names: commits, or rolls back and returns.
populate_dm_names(R) ==
    IF R.plan.step = "dm" THEN session_rollback(R)
    ELSE [session_commit(R) EXCEPT
             !.phases = Append(@, [name |-> "dm", stored |-> {},
                                   ok |-> TRUE, snap |-> R.work])]

\* IngestionService._link_orphaned_messages_and_media on the rows.
orphan_step(R) ==
    LET msgs == {r \in R.work : r.k = "msg"}
        linkedAssets == {m.v.asset : m \in msgs} \ {0}
        orphMedia == {a \in R.work : /\ a.k = "asset"
                                     /\ a.id \notin linkedAssets}
        lookup(t) == {a.id : a \in {x \in orphMedia : x.v.tok = t}}
        hits == {m \in msgs : /\ m.v.tok # 0 /\ m.v.asset = 0
                              /\ lookup(m.v.tok) # {}}
        linked == {[m EXCEPT !.v.asset = SeqMax(lookup(m.v.tok))] : m \in hits}
        R1 == [R EXCEPT !.work = (@ \ hits) \cup linked]
    IN IF R.plan.step = "orphan" THEN session_rollback(R)
       ELSE IF hits = {} THEN R
       ELSE [session_commit(R1) EXCEPT
                !.phases = Append(@, [name |-> "orphan", stored |-> linked,
                                      ok |-> TRUE, snap |-> R1.work])]

\* run_ingestion, the except branch: the status write, its commit, raise.
fail_run(R, msg) ==
    LET R1 == session_commit([R EXCEPT !.status = "failed",
                                       !.error_message = msg])
    IN [mark(R1, "terminal") EXCEPT !.raised = TRUE, !.pc = "done"]

\* run_ingestion, step 8 and the return.
complete_run(R) ==
    IF R.plan.final
    THEN fail_run(session_rollback(R), "update_ingest_run")
    ELSE LET R1 == session_commit(
                     [R EXCEPT !.status = "completed",
                               !.messages_extracted = R.nMsgs,
                               !.parsing_errors = R.errors])
         IN [mark(R1, "terminal") EXCEPT !.returned = TRUE, !.pc = "done"]

\* run_ingestion from step 4 (linking) to its end.
finish_ingestion(R) ==
    LET R1 == mark(R, "link") IN
    IF R.plan.step = "link" THEN fail_run(R1, "link")
    ELSE LET R2 == mark(R1, "persist") IN
         IF R.plan.step = "process"
         THEN fail_run(session_rollback(R2), "process")
         ELSE LET R3 == process_results_phases(R2)
                  R4 == populate_dm_names(process_conversations(R3, 1))
              IN complete_run(orphan_step(mark(R4, "orphan")))

\* The media transfer requested before the messages are decoded.
after_databases_media_first(R) ==
    IF R.config.extract_media
    THEN [mark(mark(R, "media"), "decode") EXCEPT !.ssh = @ + 1, !.pc = "opt"]
    ELSE finish_ingestion(mark(R, "decode"))

\* run_ingestion, steps 2 and 3 up to the await of extract_media_optimized.
after_databases(R) ==
    LET R1 == mark(R, "decode") IN
    IF R.plan.step = "parse" THEN fail_run(R1, "parse")
    ELSE IF R.config.extract_media
    THEN [mark(R1, "media") EXCEPT !.ssh = @ + 1, !.pc = "opt"]
    ELSE finish_ingestion(R1)

RecordPhases == {"user", "conv", "convert", "asset", "message"}

StepFaults == {"parse", "link", "process", "commit_users", "commit_convs",
               "commit_data", "dm", "orphan"}

NoFault == [phase |-> "none", at |-> 0]

\* At most one fault before the last status write, which fails or not.
Plans ==
    {[rec |-> r, step |-> s, final |-> f] :
        r \in {NoFault} \cup [phase : RecordPhases, at : 1..MaxBatch],
        s \in {"none"} \cup StepFaults, f \in BOOLEAN}

Batches ==
    UNION {[1..n -> [ok : BOOLEAN, media : BOOLEAN]] : n \in 0..MaxBatch}

\* ssh_host None is the loop's configuration without a host; has_key FALSE
\* is no key path configured and none found by _find_ssh_key.
Configs == [ssh_host : {NoneS, "device"}, has_key : BOOLEAN,
            extract_media : BOOLEAN]

\* Rows an earlier run left: a message with a token and no asset, and an
\* asset with that token.
PriorRows ==
    {Row("msg", 0, [tok |-> 9, asset |-> 0, ok |-> TRUE]),
     Row("asset", 9, [tok |-> 9])}

InitRun ==
    /\ LifeIdle /\ StoreIdle /\ LinkIdle /\ AuxIdle
    /\ AuthIdle /\ BackoffIdle /\ PureIdle
    /\ \E cfg \in Configs, b \in Batches, pl \in Plans, prior \in BOOLEAN :
         /\ pl.rec.at <= Len(b)
         /\ pl.rec = NoFault \/ pl.step = "none"
         /\ run = [pc |-> "start", config |-> cfg, batch |-> b, plan |-> pl,
                   status |-> "pending", error_message |-> NoneS,
                   parsing_errors |-> NoneI, messages_extracted |-> NoneI,
                   trace |-> <<>>, ssh |-> 0,
                   tables |-> IF prior THEN PriorRows ELSE {},
                   work |-> IF prior THEN PriorRows ELSE {},
                   stored |-> {}, phases |-> <<>>, errors |-> 0,
                   nMsgs |-> 0, nAssets |-> 0, processed |-> {},
                   raised |-> FALSE, returned |-> FALSE]

\* run_ingestion up to the await of extract_databases: the status write and
\* its commit, SSHPullService(...), the ssh tar command.
RunBegin ==
    /\ run.pc = "start"
    /\ run' = [mark(mark(session_commit([run EXCEPT !.status = "running"]),
                         "running"), "db")
                  EXCEPT !.ssh = @ + 1, !.pc = "db"]
    /\ UNCHANGED <<lifeVars, storeVars, link, auxVars, auth, bk, pureVars>>

\* extract_databases returns.  Without a host the ssh command fails.
DatabasesReturn ==
    /\ run.pc = "db"
    /\ \E ok \in BOOLEAN :
         /\ run.config.ssh_host = NoneS => ~ok
         /\ run' = IF ok THEN after_databases(run)
                   ELSE fail_run(run, "Database extraction failed")
    /\ UNCHANGED <<lifeVars, storeVars, link, auxVars, auth, bk, pureVars>>

\* extract_media_optimized returns; on failure the legacy transfer is awaited.
OptimizedReturns ==
    /\ run.pc = "opt"
    /\ \E ok \in BOOLEAN :
         run' = IF ok THEN finish_ingestion(run)
                ELSE [mark(run, "legacy") EXCEPT !.ssh = @ + 1,
                                                 !.pc = "legacy"]
    /\ UNCHANGED <<lifeVars, storeVars, link, auxVars, auth, bk, pureVars>>

\* extract_media returns; its failure is logged only.
LegacyReturns ==
    /\ run.pc = "legacy"
    /\ run' = finish_ingestion(run)
    /\ UNCHANGED <<lifeVars, storeVars, link, auxVars, auth, bk, pureVars>>

NextRun ==
    \/ RunBegin
    \/ DatabasesReturn
    \/ OptimizedReturns
    \/ LegacyReturns

SpecRun == InitRun /\ [][NextRun]_vars

(***************************************************************************)
(* Claims about one run.                                                   *)
(***************************************************************************)
RunEnded == run.pc = "done"

StepsTaken == {run.trace[i] : i \in DOMAIN run.trace}

DecodeFailures == Cardinality({i \in DOMAIN run.batch : ~run.batch[i].ok})

NoFaultPlanned ==
    /\ run.plan.rec = NoFault
    /\ run.plan.step = "none"
    /\ ~run.plan.final

\* C21: a message whose decode returns ok = false never makes the run fail,
\* and on a completed run the parsing_errors counter of the run equals the
\* number of its messages whose decode returned ok = false.
C21_ParsingErrorsCountDecodeFailures ==
    RunEnded =>
        /\ (NoFaultPlanned /\ "persist" \in StepsTaken)
              => run.status = "completed"
        /\ run.status = "completed" => run.parsing_errors = DecodeFailures

\* C22: when storing one record of a batch fails, an entry is added to the
\* error list, the remaining records are still processed, and every record
\* of the same phase stored before the failure is persisted by the commit of
\* the phase.
C22_StoredBeforeFailurePersisted ==
    /\ (RunEnded /\ run.plan.rec # NoFault /\ "persist" \in StepsTaken)
          => (run.errors >= 1 /\ Len(run.phases) >= 3)
    /\ \A j \in DOMAIN run.phases :
          run.phases[j].ok => run.phases[j].stored \subseteq run.phases[j].snap

\* C23: run_ingestion never lets an exception reach its caller: a failure is
\* reported through the status 'failed' and the error message only, and the
\* caller always receives a result object.
C23_NoExceptionToCaller ==
    RunEnded => (~run.raised /\ run.returned)

\* C24: when the remote host or the transport credentials are missing from
\* the configuration, no ssh command is executed in the run.
C24_NoCommandWithoutConfiguration ==
    (run.config.ssh_host = NoneS \/ ~run.config.has_key) => run.ssh = 0

StepRank(step) ==
    CASE step = "running" -> 1
      [] step = "db" -> 2
      [] step = "decode" -> 3
      [] step = "media" -> 4
      [] step = "legacy" -> 5
      [] step = "link" -> 6
      [] step = "persist" -> 7
      [] step = "orphan" -> 8
      [] step = "terminal" -> 9

Position(step) == CHOOSE i \in DOMAIN run.trace : run.trace[i] = step

\* C26: the steps of a run execute in the order status running, database
\* extraction, decoding, media transfer (with its fallback), linking,
\* persistence, orphan reconciliation, terminal status write; no media
\* transfer is requested before the database extraction has succeeded and
\* the messages are decoded.
C26_StepsInOrder ==
    /\ \A i, j \in DOMAIN run.trace :
          i < j => StepRank(run.trace[i]) < StepRank(run.trace[j])
    /\ run.trace # <<>> => run.trace[1] = "running"
    /\ \A s \in {"media", "legacy"} :
          s \in StepsTaken =>
             /\ "db" \in StepsTaken
             /\ "decode" \in StepsTaken
             /\ Position("db") < Position(s)
             /\ Position("decode") < Position(s)
             /\ run.status # "failed" \/ Position(s) < Position("terminal")
    /\ RunEnded => run.trace[Len(run.trace)] = "terminal"
    /\ (RunEnded /\ run.status = "completed") =>
          /\ {"running", "db", "decode", "link", "persist", "orphan"}
                \subseteq StepsTaken
          /\ run.config.extract_media <=> "media" \in StepsTaken

C26_Witness ==
    /\ RunEnded
    /\ run.status = "completed"
    /\ run.trace = <<"running", "db", "decode", "media", "legacy", "link",
                     "persist", "orphan", "terminal">>
    /\ Len(run.batch) = MaxBatch

-----------------------------------------------------------------------------
(***************************************************************************)
(* The correlation key of a file name, as remote discovery and the local   *)
(* media scan derive it (specification SpecKey).  Names are sequences of   *)
(* characters.                                                             *)
(***************************************************************************)
MaxName == 4      \* characters of a file name

NameChars == {"a", "b", "_", "."}

\* File names as a directory listing gives them; they begin with a letter.
Names ==
    {f \in UNION {[1..n -> NameChars] : n \in 1..MaxName} :
        f[1] \in {"a", "b"}}

InitKey ==
    /\ LifeIdle /\ StoreIdle /\ LinkIdle /\ AuxIdle
    /\ RunIdle /\ AuthIdle /\ BackoffIdle /\ TarIdle
    /\ \E f \in Names : corr = [done |-> FALSE, filename |-> f]

\* discover_remote_media_files lists the file and the media scan finds the
\* same file after the transfer.
DeriveKeys ==
    /\ ~corr.done
    /\ corr' = [done |-> TRUE, filename |-> corr.filename,
               remote |-> extract_cache_key(corr.filename),
               local |-> scan_media(corr.filename).cache_key]
    /\ UNCHANGED <<lifeVars, storeVars, link, auxVars, run, auth, bk, tar>>

NextKey == DeriveKeys

SpecKey == InitKey /\ [][NextKey]_vars

\* The first position of character c in name, 0 when it is not there.
FirstAt(name, c) ==
    IF \E i \in 1..Len(name) : name[i] = c
    THEN SeqMin({i \in 1..Len(name) : name[i] = c})
    ELSE 0

\* The name without its extension (the text after its last dot, when the
\* dot is not the first character).
Stem(name) ==
    LET dots == {i \in 2..Len(name) : name[i] = "."}
    IN IF dots = {} THEN name ELSE SubSeq(name, 1, SeqMax(dots) - 1)

\* C31: for every file name the corr of remote discovery equals the corr of
\* the local media scan, and both are the text before the first underscore,
\* or the whole stem when the name has no underscore.
C31_SameCorrelationKey ==
    corr.done =>
        /\ corr.remote = corr.local
        /\ FirstAt(corr.filename, "_") > 0 =>
              corr.remote = SubSeq(corr.filename, 1,
                                  FirstAt(corr.filename, "_") - 1)
        /\ FirstAt(corr.filename, "_") = 0 => corr.remote = Stem(corr.filename)

-----------------------------------------------------------------------------
(***************************************************************************)
(* One transport operation: extract_databases, extract_media or            *)
(* transfer_specific_media_files (specification SpecTar).  The operation   *)
(* builds one ssh command line, hands it to _execute_tar_stream, tests the *)
(* local archive and extracts it.  What the subprocess, the file system    *)
(* and tarfile do are inputs.                                              *)
(***************************************************************************)
MaxPaths == 3     \* files of a selective transfer

Operations == {"extract_databases", "extract_media",
               "transfer_specific_media_files"}

\* subprocess.run: the exit code of ssh, subprocess.TimeoutExpired, or
\* another exception (open() of the local archive, exec of ssh).
Exits == {"zero", "nonzero", "timeout", "oserror"}

\* The local archive after the command: not there, zero bytes, or bytes.
Archives == {"missing", "empty", "bytes"}

\* remote_path of the files, numbered.
RemotePaths == 1..MaxPaths

\* The lists of paths of needed_files, without repetition.
PathLists ==
    {l \in UNION {[1..n -> RemotePaths] : n \in 0..MaxPaths} :
        \A i, j \in DOMAIN l : i # j => l[i] # l[j]}

\* create_file_cmds: `echo 'path' > list` for the first path and
\* `echo 'path' >> list` for the others.
create_file_cmds(files) ==
    [i \in DOMAIN files |->
        [cmd |-> "echo", path |-> files[i],
         redirect |-> IF i = 1 THEN ">" ELSE ">>"]]

\* The remote command line of the selective transfer: the echo commands and
\* `tar -cf - -T list` joined by && into one string.
selective_command(files) ==
    create_file_cmds(files)
        \o <<[cmd |-> "tar", path |-> 0, redirect |-> "-T"]>>

\* The remote command line of extract_databases and extract_media: tar with
\* the fixed items as arguments.
fixed_command == <<[cmd |-> "tar", path |-> 0, redirect |-> "items"]>>

\* _execute_tar_stream without the test of the exit code.
execute_tar_stream_any_exit(exit) ==
    IF exit = "timeout"
    THEN [success |-> FALSE, error |-> "SSH tar stream timed out"]
    ELSE IF exit = "oserror" THEN [success |-> FALSE, error |-> "str(e)"]
    ELSE [success |-> TRUE, error |-> ""]

\* _execute_tar_stream
execute_tar_stream(exit) ==
    IF exit = "timeout"
    THEN [success |-> FALSE, error |-> "SSH tar stream timed out"]
    ELSE IF exit = "oserror" THEN [success |-> FALSE, error |-> "str(e)"]
    ELSE IF exit = "zero" THEN [success |-> TRUE, error |-> ""]
    ELSE [success |-> FALSE, error |-> "stderr"]

\* The operation from the result of _execute_tar_stream on: the test of the
\* local archive, the extraction, and the except branch that turns every
\* exception into a result.
transport_result(op, result, archive, extracts) ==
    IF ~result.success
    THEN [success |-> FALSE, raised |-> FALSE,
          error |-> <<"stream failed: ", result.error>>]
    ELSE IF archive # "bytes"
    THEN [success |-> FALSE, raised |-> FALSE,
          error |-> <<"completed but local file is missing or empty">>]
    ELSE IF ~extracts
    THEN [success |-> FALSE, raised |-> FALSE, error |-> <<"str(e)">>]
    ELSE [success |-> TRUE, raised |-> FALSE, error |-> <<>>]

InitTar ==
    /\ LifeIdle /\ StoreIdle /\ LinkIdle /\ AuxIdle
    /\ RunIdle /\ AuthIdle /\ BackoffIdle /\ KeyIdle
    /\ \E op \in Operations, files \in PathLists :
         /\ op # "transfer_specific_media_files" => files = <<>>
         /\ tar = [pc |-> "start", op |-> op, files |-> files,
                   commands |-> <<>>, exit |-> "none", archive |-> "none",
                   result |-> [success |-> FALSE, raised |-> FALSE,
                               error |-> <<>>]]

\* The operation up to the await of run_in_executor: the early return of
\* the selective transfer without files, or the ssh command.
BuildCommand ==
    /\ tar.pc = "start"
    /\ tar' =
         IF tar.op = "transfer_specific_media_files" /\ tar.files = <<>>
         THEN [tar EXCEPT !.pc = "done",
                  !.result = [success |-> TRUE, raised |-> FALSE,
                              error |-> <<>>]]
         ELSE [tar EXCEPT !.pc = "streaming",
                  !.commands = Append(@,
                      IF tar.op = "transfer_specific_media_files"
                      THEN selective_command(tar.files)
                      ELSE fixed_command)]
    /\ UNCHANGED <<lifeVars, storeVars, link, auxVars, run, auth, bk, corr>>

\* _execute_tar_stream returns and the operation runs to its return.  A
\* command that did not start leaves no bytes; the others leave what the
\* remote side wrote before it ended.
StreamReturns ==
    /\ tar.pc = "streaming"
    /\ \E exit \in Exits, archive \in Archives, extracts \in BOOLEAN :
         /\ exit = "oserror" => archive # "bytes"
         /\ exit # "oserror" => archive # "missing"
         /\ tar' = [tar EXCEPT
                       !.pc = "done", !.exit = exit, !.archive = archive,
                       !.result = transport_result(tar.op,
                                      execute_tar_stream(exit), archive,
                                      extracts)]
    /\ UNCHANGED <<lifeVars, storeVars, link, auxVars, run, auth, bk, corr>>

NextTar ==
    \/ BuildCommand
    \/ StreamReturns

SpecTar == InitTar /\ [][NextTar]_vars

\* The operation has returned after executing its command.
Transferred == tar.pc = "done" /\ tar.commands # <<>>

ErrorText(r) == \E i \in DOMAIN r.error : r.error[i] # ""

PathsIn(command) == {command[i].path : i \in DOMAIN command} \ {0}

RECURSIVE Flatten(_)
Flatten(ss) == IF ss = <<>> THEN <<>> ELSE Head(ss) \o Flatten(Tail(ss))

\* C33: in a selective transfer of N files the paths are written to the
\* list file with one append per entry, the first write truncating the
\* file; the archive command reads its paths from the list file only; and no
\* single remote command line holds all N paths (stated here for N >= 2).
C33_PathsThroughListFile ==
    (tar.op = "transfer_specific_media_files" /\ tar.commands # <<>>) =>
        LET all == Flatten(tar.commands)
            echoes == SelectSeq(all, LAMBDA e : e.cmd = "echo")
            tars == SelectSeq(all, LAMBDA e : e.cmd = "tar")
        IN /\ Len(echoes) = Len(tar.files)
           /\ \A i \in DOMAIN echoes :
                 /\ echoes[i].path = tar.files[i]
                 /\ echoes[i].redirect = IF i = 1 THEN ">" ELSE ">>"
           /\ Len(tars) = 1 /\ tars[1].redirect = "-T" /\ tars[1].path = 0
           /\ Len(tar.files) >= 2 =>
                 \A k \in DOMAIN tar.commands :
                    PathsIn(tar.commands[k])
                       # {tar.files[i] : i \in DOMAIN tar.files}

=============================================================================
